---- MODULE Spec2Model ----
(***************************************************************************)
(* Model of the LeadMap enrichment pipeline:                               *)
(*   scripts/redfin-scraper/Enrichment.py      enrich_lead_task,           *)
(*                                             run_enrichment_pipeline,    *)
(*                                             TruePeopleSearchParser      *)
(*   scripts/redfin-scraper/supabase_client.py save_lead_to_supabase       *)
(*   scripts/redfin-scraper/orchestrator.py    main                        *)
(*   scripts/redfin-scraper/worker.py          main, process_job           *)
(* One asyncio task per lead; a task's code between two awaits is one      *)
(* atomic action (the event loop is single threaded), the awaits are the   *)
(* points where tasks interleave and where a cancellation is delivered.    *)
(***************************************************************************)
EXTENDS Integers, Sequences, FiniteSets, TLC

VARIABLES run, leads, task, sem, stats, debug_sample_count,
          upload_idx, upserted, listings, clock,
          arg, result, orch, queue, worker, delivered, completed

vars == <<run, leads, task, sem, stats, debug_sample_count,
          upload_idx, upserted, listings, clock,
          arg, result, orch, queue, worker, delivered, completed>>

\* the state of one run of Enrichment.py, apart from the store and the clock
pipeline == <<run, leads, task, sem, stats, debug_sample_count,
              upload_idx, upserted>>

\* the argument and the result of a function called on its own
call == <<arg, result>>

\* the state of orchestrator.py, of the workers and of the Redis list
farm == <<orch, queue, worker, delivered, completed>>

----------------------------------------------------------------------------
(* Bounds of the model *)

\* number of rows of the input CSV in the pipeline specification
NumLeads == 2

\* number of rows of the input CSV in the semaphore specification
NumSemLeads == 10

\* number of visible ticks of datetime.utcnow() during one run
MaxClock == 1

\* number of worker processes
NumWorkers == 2

\* number of rows of the orchestrator's CSV
NumJobs == 2

\* items of the pipeline whose page is loading while the samples run out
NumInFlight == 2

\* number of parts of the longest text given to parse_full_address
MaxParts == 4

\* length of the longest string given to normalize_zip
MaxZipLen == 7

\* length of the longest short string given to normalize_phone
MaxPhoneLen == 3

----------------------------------------------------------------------------
(* Program constants *)

CONCURRENCY_LIMIT == 8

USE_AWS_ROTATION == TRUE

SAVE_DEBUG_SAMPLES == TRUE

MAX_DEBUG_SAMPLES == 5

max_retries == 2

\* Python's None, also the value of lead_data.get(k) for an absent key
None == "None"

----------------------------------------------------------------------------
(* Work items: the rows of the CSV, dicts from column name to string *)

Keys == {"property_url", "address", "street", "city", "state", "zip_code",
         "full_name", "notes"}

EmptyRow == [k \in Keys |-> ""]

\* street, city and state each in a column of its own; no natural key
RowSeparate == [EmptyRow EXCEPT !["address"] = "12 Oak St",
                                !["city"] = "Troy",
                                !["state"] = "NY",
                                !["zip_code"] = "12180"]

\* only a combined address string, in the 'street' column
RowCombined == [EmptyRow EXCEPT !["property_url"] = "u1",
                                !["street"] = "12 Oak St, Troy, NY 12180",
                                !["notes"] = "fsbo"]

\* a street and nothing else: city and state are in no column
RowBare == [EmptyRow EXCEPT !["property_url"] = "u2",
                            !["street"] = "12 Oak St"]

CsvRows == {RowSeparate, RowCombined, RowBare}

\* lead_data.get(key)
Get(lead_data, key) == IF key \in DOMAIN lead_data THEN lead_data[key] ELSE None

\* Python truthiness of a string or None
Truthy(value) == value # None /\ value # ""

\* str(value).strip()
Strip(value) == IF value = " " THEN "" ELSE value

\* `if value and str(value).strip()`
NonBlank(value) == Truthy(value) /\ Strip(value) # ""

\* the first non-blank, stripped value among the columns `keys`, else ''
RECURSIVE FirstNonBlank(_, _)
FirstNonBlank(lead_data, keys) ==
    IF keys = <<>> THEN ""
    ELSE IF NonBlank(Get(lead_data, Head(keys)))
         THEN Strip(Get(lead_data, Head(keys)))
         ELSE FirstNonBlank(lead_data, Tail(keys))

\* key.lower() for the column names of the model
Lower(key) == CASE key = "Address" -> "address"
                [] key = "ADDRESS" -> "address"
                [] key = "Street" -> "street"
                [] key = "STREET" -> "street"
                [] key = "City" -> "city"
                [] key = "CITY" -> "city"
                [] OTHER -> key

NoParse == [street |-> None, city |-> None, state |-> None, zip_code |-> None]

\* parse_full_address on the address strings of the model: pattern 1 for
\* "street, city, ST zip", the comma split when no pattern matches, the
\* whole string as the street when there is no comma, the zip alone
parse_full_address(address_string) ==
    CASE address_string = "12 Oak St, Troy, NY 12180" ->
             [street |-> "12 Oak St", city |-> "Troy", state |-> "NY",
              zip_code |-> "12180"]
      [] address_string = "12 Oak St, Troy" ->
             [NoParse EXCEPT !.street = "12 Oak St", !.city = "Troy"]
      [] address_string = "12 Oak St" ->
             [NoParse EXCEPT !.street = "12 Oak St"]
      [] address_string = "12180" ->
             [NoParse EXCEPT !.street = "", !.zip_code = "12180"]
      [] OTHER -> NoParse

\* the columns looked up for the combined address string
AddressKeys == <<"address", "street", "Address", "Street", "ADDRESS", "STREET">>

\* full_address_string: exact column names first, then any letter case
full_address_string(lead_data) ==
    LET exact == FirstNonBlank(lead_data, AddressKeys)
        anycase == {k \in DOMAIN lead_data :
                      /\ Truthy(lead_data[k])
                      /\ Lower(k) \in {"address", "street"}
                      /\ Strip(lead_data[k]) # ""}
    IN  IF exact # "" THEN exact
        ELSE IF anycase # {} THEN Strip(lead_data[CHOOSE k \in anycase : TRUE])
        ELSE ""

\* address, city and state as resolved from the columns and the parsed
\* address string
\* parse_full_address is called only when the address string is there and
\* the city or the state column is not
NeedsParse(lead_data) ==
    /\ full_address_string(lead_data) # ""
    /\ ~(/\ FirstNonBlank(lead_data, <<"city", "City", "CITY">>) # ""
         /\ FirstNonBlank(lead_data, <<"state", "State", "STATE">>) # "")

ResolveAddress(lead_data, parsed) ==
    LET city0 == FirstNonBlank(lead_data, <<"city", "City", "CITY">>)
        state0 == FirstNonBlank(lead_data, <<"state", "State", "STATE">>)
        zip0 == FirstNonBlank(lead_data, <<"zip_code", "zip", "Zip", "ZIP",
                                           "zipcode", "ZipCode", "ZIPCODE">>)
        full == full_address_string(lead_data)
        useParsed == full # "" /\ ~(city0 # "" /\ state0 # "")
    IN  [address |-> IF full = "" THEN ""
                     ELSE IF ~useParsed THEN full
                     ELSE parsed.street,
         city |-> IF useParsed /\ city0 = "" /\ Truthy(parsed.city)
                  THEN parsed.city ELSE city0,
         state |-> IF useParsed /\ state0 = "" /\ Truthy(parsed.state)
                   THEN parsed.state ELSE state0,
         zip_code |-> IF useParsed /\ zip0 = "" /\ Truthy(parsed.zip_code)
                      THEN parsed.zip_code ELSE zip0]

\* the state is not looked at
MissingAddress_NoState(r) == ~(Truthy(r.address) /\ Truthy(r.city))

\* `if not all([address, city, state])`
MissingAddress(r) == ~(Truthy(r.address) /\ Truthy(r.city) /\ Truthy(r.state))

----------------------------------------------------------------------------
(* The environment of a task: navigation outcomes and page contents *)

Statuses == {200, 403, 404}

TargetUrl == "https://www.truepeoplesearch.com/resultaddress"

ChallengeUrl == "https://challenges.cloudflare.com/cdn-cgi/challenge"

OtherUrl == "https://ads.example.org/landing"

FinalUrls == {TargetUrl, ChallengeUrl, OtherUrl}

\* 'truepeoplesearch.com' in final_url.lower()
OnDomain(url) == url = TargetUrl

\* 'cloudflare' in final_url.lower() or 'challenge' in final_url.lower()
IsChallengeUrl(url) == url = ChallengeUrl

NoNav == [kind |-> "unset", status |-> 0, url |-> ""]

\* the responses of a navigation: any status from the target, and a page
\* loaded from another site after a redirect (the loop looks at the URL of
\* a response only when its status, or its attempt, did not decide already)
Responses == [kind : {"response"}, status : Statuses, url : {TargetUrl}] \cup
             [kind : {"response"}, status : {200}, url : FinalUrls]

\* page.goto returns a response, returns None, or raises (timeout or other)
NavOutcomes == Responses \cup
               {[kind |-> k, status |-> 0, url |-> ""] :
                    k \in {"no_response", "timeout", "error"}}

Markers == {"", "captcha", "robot", "access denied", "no results found",
            "we found 0"}

\* a dict of extracted fields is a set of <<key, value>> pairs
NoFields == {}

SomeFields == {<<"full_name", "John Doe">>}

NoHtml == [empty |-> TRUE, marker |-> "unset", fields |-> NoFields]

EmptyPage == [empty |-> TRUE, marker |-> "", fields |-> NoFields]

\* page.content(): the text marker of the page and the fields that
\* extract_resident_data and extract_property_data find in it: an empty
\* document, a page with or without data, a page with data and a marker
Pages == {EmptyPage} \cup
         [empty : {FALSE}, marker : {""}, fields : {NoFields, SomeFields}] \cup
         [empty : {FALSE}, marker : Markers, fields : {SomeFields}]

\* any(kw in page_text for kw in ['captcha', 'robot', 'access denied'])
HasBlockingIndicator(html) == html.marker \in {"captcha", "robot", "access denied"}

\* 'no results found' in page_text or 'we found 0' in page_text
HasNoResultsMarker(html) == html.marker \in {"no results found", "we found 0"}

\* extraction without the check for blocking and no-results markers
extract_all_Unchecked(html) == IF html.empty THEN NoFields ELSE html.fields

extract_all(html) ==
    IF html.empty THEN NoFields
    ELSE IF HasBlockingIndicator(html) THEN NoFields
    ELSE IF HasNoResultsMarker(html) THEN NoFields
    ELSE html.fields

\* lead_data.update(extracted_data)
DictUpdate(lead_data, extracted_data) ==
    LET newkeys == {kv[1] : kv \in extracted_data}
    IN  [k \in DOMAIN lead_data \cup newkeys |->
            IF k \in newkeys
            THEN (CHOOSE kv \in extracted_data : kv[1] = k)[2]
            ELSE lead_data[k]]

----------------------------------------------------------------------------------------------------------------------------------------
(* Tasks: one enrich_lead_task coroutine per lead *)

NewTask == [pc |-> "queued", attempt |-> 0, attempts |-> 0, gotos |-> 0,
            fetch_success |-> FALSE, nav |-> NoNav,
            context |-> FALSE, page |-> FALSE,
            html |-> NoHtml, extracted |-> NoFields,
            hits |-> 0, outcome |-> "none", sample |-> -1]

Items == 1..Len(task)

Finished(t) == t.pc \in {"done", "raised", "cancelled"}

\* the tasks run while gather awaits them, and until they are cancelled
\* once the run is aborted
Running == run \in {"gather", "aborted"}

\* off by one: a permit is handed out at value 0 too
SemCanAcquire_AtZero == sem >= 0

\* asyncio.Semaphore(CONCURRENCY_LIMIT): acquire needs a positive value
SemCanAcquire == sem > 0

SemAcquire == sem' = sem - 1

SemRelease == sem' = sem + 1

\* the success branch bumps the counter of the failures
Counted_SuccessAsFailure(t, counter) ==
    [t EXCEPT !.hits = @ + 1,
              !.outcome = IF counter = "enriched" THEN "failed" ELSE counter]

\* stats[counter] += 1, done by the task t
Counted(t, counter) == [t EXCEPT !.hits = @ + 1, !.outcome = counter]

Bump(counter) == stats' = [stats EXCEPT ![counter] = @ + 1]

\* the locals of a task that has left enrich_lead_task
Left(t, how) == [t EXCEPT !.pc = how, !.attempt = 0, !.attempts = 0,
                          !.gotos = 0, !.fetch_success = FALSE,
                          !.nav = NoNav, !.html = NoHtml,
                          !.extracted = NoFields]

\* `return lead_data` (from the body or from the except clause): the
\* finally clause awaits page.close() / context.close() when one is open
Returned(t) == IF t.page \/ t.context THEN [t EXCEPT !.pc = "closing"]
               ELSE Left(t, "done")

\* the body of enrich_lead_task up to its first await: semaphore entry,
\* address resolution, skip decision, URL building
Start(i) ==
    /\ Running
    /\ task[i].pc = "queued"
    /\ SemCanAcquire
    /\ LET parsed == IF NeedsParse(leads[i])
                      THEN parse_full_address(full_address_string(leads[i]))
                      ELSE NoParse
           r == ResolveAddress(leads[i], parsed)
       IN  IF MissingAddress(r)
           THEN /\ Bump("skipped")
                /\ task' = [task EXCEPT ![i] = Left(Counted(@, "skipped"), "done")]
                /\ UNCHANGED <<sem, leads>>
           ELSE /\ leads' = [leads EXCEPT ![i]["address"] =
                                IF Truthy(@) THEN @ ELSE r.address]
                /\ task' = [task EXCEPT ![i].pc = "new_context"]
                /\ SemAcquire
                /\ UNCHANGED stats
    /\ UNCHANGED <<run, debug_sample_count, upload_idx, upserted, listings, clock>>
    /\ UNCHANGED <<call, farm>>

\* an exception in the body: `except Exception` counts the item as failed
\* and returns
Failed(i) ==
    /\ Bump("failed")
    /\ task' = [task EXCEPT ![i] =
                   Returned(Counted([@ EXCEPT !.nav = NoNav, !.attempt = 0,
                                              !.attempts = 0, !.gotos = 0,
                                              !.fetch_success = FALSE],
                                    "failed"))]
    /\ IF task[i].page \/ task[i].context THEN UNCHANGED sem ELSE SemRelease

\* await browser.new_context(...) raises
NewContextRaises(i) ==
    /\ Running
    /\ task[i].pc = "new_context"
    /\ Failed(i)
    /\ UNCHANGED <<run, leads, debug_sample_count, upload_idx, upserted,
                   listings, clock>>
    /\ UNCHANGED <<call, farm>>

\* await browser.new_context(...) returns the context
NewContext(i) ==
    /\ Running
    /\ task[i].pc = "new_context"
    /\ task' = [task EXCEPT ![i].context = TRUE, ![i].pc = "new_page"]
    /\ UNCHANGED <<run, leads, sem, stats, debug_sample_count, upload_idx,
                   upserted, listings, clock>>
    /\ UNCHANGED <<call, farm>>

\* await context.new_page(), then the first iteration of the retry loop
NewPage(i) ==
    /\ Running
    /\ task[i].pc = "new_page"
    /\ \/ /\ task' = [task EXCEPT ![i].page = TRUE, ![i].attempt = 0,
                                  ![i].attempts = 1,
                                  ![i].pc = IF USE_AWS_ROTATION THEN "proxy"
                                            ELSE "direct"]
          /\ UNCHANGED <<sem, stats>>
       \/ Failed(i)
    /\ UNCHANGED <<run, leads, debug_sample_count, upload_idx, upserted,
                   listings, clock>>
    /\ UNCHANGED <<call, farm>>

----------------------------------------------------------------------------
(* The fetch loop: `for attempt in range(max_retries)` *)

\* fetch_via_aws_proxy returns True only for a 200 whose final URL is
\* still on the target domain
fetch_via_aws_proxy(r) ==
    r.kind = "response" /\ r.status = 200 /\ OnDomain(r.url)

\* `if attempt < max_retries - 1`: the guard of every wait-and-continue
NotLastAttempt(attempt) == attempt < max_retries - 1

\* off by one: the loop runs once more than max_retries
RangeHasNext_OneMore(attempt) == attempt + 1 <= max_retries

\* range(max_retries) has a next value after `attempt`
RangeHasNext(attempt) == attempt + 1 < max_retries

\* a status >= 400 outside {403, 429, 502, 503} ends the loop at once
DirectStep_TerminalStatus(attempt, r) ==
    IF r.kind = "response"
    THEN IF /\ r.status >= 400
            /\ r.status \in {403, 429, 502, 503}
            /\ attempt < max_retries - 1 THEN "continue"
         ELSE IF /\ ~OnDomain(r.url)
                 /\ IsChallengeUrl(r.url)
                 /\ attempt < max_retries - 1 THEN "continue"
         ELSE "break"
    ELSE "continue"

\* what one direct page.goto does to the loop: "break" with fetch_success
\* set, or "continue" (explicitly, or by reaching the end of the body)
DirectStep(attempt, r) ==
    IF r.kind = "response"
    THEN IF r.status >= 400 /\ NotLastAttempt(attempt) THEN "continue"
         ELSE IF /\ ~OnDomain(r.url)
                 /\ IsChallengeUrl(r.url)
                 /\ NotLastAttempt(attempt) THEN "continue"
         ELSE "break"
    ELSE "continue"

\* attempt 0 with USE_AWS_ROTATION: await fetch_via_aws_proxy(page, url)
ProxyFetch(i) ==
    /\ Running
    /\ task[i].pc = "proxy"
    /\ \E r \in NavOutcomes :
         IF fetch_via_aws_proxy(r)
         THEN task' = [task EXCEPT ![i].gotos = @ + 1,
                                   ![i].fetch_success = TRUE,
                                   ![i].nav = r,
                                   ![i].pc = "settle"]
         ELSE task' = [task EXCEPT ![i].gotos = @ + 1, ![i].pc = "direct"]
    /\ UNCHANGED <<run, leads, sem, stats, debug_sample_count, upload_idx,
                   upserted, listings, clock>>
    /\ UNCHANGED <<call, farm>>

\* await page.goto(search_url): the direct connection, as the fallback of
\* the proxy or as the attempt of its own
DirectFetch(i) ==
    /\ Running
    /\ task[i].pc = "direct"
    /\ \E r \in NavOutcomes :
         LET t == [task[i] EXCEPT !.gotos = @ + 1, !.nav = r] IN
           IF DirectStep(t.attempt, r) = "break"
           THEN /\ task' = [task EXCEPT ![i] =
                               [t EXCEPT !.fetch_success = TRUE, !.pc = "settle"]]
                /\ UNCHANGED <<sem, stats>>
           ELSE IF RangeHasNext(t.attempt)
           THEN /\ task' = [task EXCEPT ![i] =
                               [t EXCEPT !.attempt = @ + 1, !.attempts = @ + 1]]
                /\ UNCHANGED <<sem, stats>>
           ELSE \* `if not fetch_success`: failed, return
                /\ Bump("failed")
                /\ task' = [task EXCEPT ![i] =
                               Returned(Counted([t EXCEPT !.nav = NoNav], "failed"))]
                /\ UNCHANGED sem
    /\ UNCHANGED <<run, leads, debug_sample_count, upload_idx, upserted,
                   listings, clock>>
    /\ UNCHANGED <<call, farm>>

\* no test of the number of samples written so far
Sampling_NoCap == SAVE_DEBUG_SAMPLES

\* `if SAVE_DEBUG_SAMPLES and debug_sample_count < MAX_DEBUG_SAMPLES`
Sampling == SAVE_DEBUG_SAMPLES /\ debug_sample_count < MAX_DEBUG_SAMPLES

\* the waits for the page to settle, page.content(), extract_all, the debug
\* sample, the merge into lead_data and the counters, up to the return; the
\* file sample_NN_STATUS.html is opened, written and counted without an
\* await in between, and sample is the NN of the file the task has written
LoadPage(i) ==
    /\ Running
    /\ task[i].pc = "settle"
    /\ \/ \* page.content() raises
          /\ Failed(i)
          /\ UNCHANGED <<leads, debug_sample_count>>
       \/ /\ \E html \in Pages, write_ok \in BOOLEAN :
               LET extracted_data == extract_all(html)
                   u == [task[i] EXCEPT !.html = html,
                                        !.extracted = extracted_data,
                                        !.nav = NoNav, !.attempt = 0,
                                        !.attempts = 0, !.gotos = 0]
                   t == IF Sampling /\ write_ok
                        THEN [u EXCEPT !.sample = debug_sample_count]
                        ELSE u
               IN  IF Sampling /\ ~write_ok
                   THEN \* open() or write() of the debug file raises
                        /\ Bump("failed")
                        /\ task' = [task EXCEPT ![i] =
                                       Returned(Counted([t EXCEPT !.html = NoHtml,
                                                                  !.extracted = NoFields],
                                                        "failed"))]
                        /\ UNCHANGED <<leads, debug_sample_count>>
                   ELSE /\ debug_sample_count' = IF Sampling
                                                 THEN debug_sample_count + 1
                                                 ELSE debug_sample_count
                        /\ IF extracted_data # NoFields
                           THEN /\ leads' = [leads EXCEPT ![i] =
                                                DictUpdate(@, extracted_data)]
                                /\ Bump("enriched")
                                /\ task' = [task EXCEPT ![i] =
                                               Returned(Counted(t, "enriched"))]
                           ELSE /\ Bump("failed")
                                /\ task' = [task EXCEPT ![i] =
                                               Returned(Counted(t, "failed"))]
                                /\ UNCHANGED leads
          /\ UNCHANGED sem
    /\ UNCHANGED <<run, upload_idx, upserted, listings, clock>>
    /\ UNCHANGED <<call, farm>>

\* the finally clause: await page.close(), await context.close(); an
\* exception of either leaves the task, and gather hands it to the pipeline
Cleanup(i) ==
    /\ Running
    /\ task[i].pc = "closing"
    /\ \/ /\ task' = [task EXCEPT ![i] =
                         Left([@ EXCEPT !.page = FALSE, !.context = FALSE], "done")]
          /\ UNCHANGED run
       \/ /\ task[i].page
          /\ task' = [task EXCEPT ![i] = Left(@, "raised")]
          /\ run' = "aborted"
       \/ /\ task[i].context
          /\ task' = [task EXCEPT ![i] = Left([@ EXCEPT !.page = FALSE], "raised")]
          /\ run' = "aborted"
    /\ SemRelease
    /\ UNCHANGED <<leads, stats, debug_sample_count, upload_idx, upserted,
                   listings, clock>>
    /\ UNCHANGED <<call, farm>>

\* asyncio.run cancels the tasks still pending when the pipeline has raised:
\* CancelledError is no Exception, so only the finally clause runs
Cancel(i) ==
    /\ run = "aborted"
    /\ ~Finished(task[i])
    /\ task' = [task EXCEPT ![i] =
                   Left([@ EXCEPT !.page = FALSE, !.context = FALSE], "cancelled")]
    /\ IF task[i].pc = "queued" THEN UNCHANGED sem ELSE SemRelease
    /\ UNCHANGED <<run, leads, stats, debug_sample_count, upload_idx, upserted,
                   listings, clock>>
    /\ UNCHANGED <<call, farm>>

----------------------------------------------------------------------------
(* The store: save_lead_to_supabase and the listings table *)

\* canonical column |-> priority list of source keys
FIELD_MAPPINGS == <<
    <<"property_url", <<"property_url">> >>,
    <<"street", <<"address", "street">> >>,
    <<"city", <<"city">> >>,
    <<"state", <<"state">> >>,
    <<"zip_code", <<"zip_code">> >>,
    <<"time_listed", <<"time_listed">> >>,
    <<"Last_Sale_Date", <<"last_sale_date">> >>,
    <<"Full_Name", <<"full_name">> >>,
    <<"Relatives", <<"relatives">> >> >>

MappedColumns == {FIELD_MAPPINGS[n][1] : n \in DOMAIN FIELD_MAPPINGS}

SourceKeys(col) ==
    (CHOOSE m \in {FIELD_MAPPINGS[n] : n \in DOMAIN FIELD_MAPPINGS} : m[1] = col)[2]

\* the first value that is neither None nor '' among the keys, else None
RECURSIVE get_field_value(_, _)
get_field_value(lead_data, field_keys) ==
    IF field_keys = <<>> THEN None
    ELSE LET value == Get(lead_data, Head(field_keys)) IN
         IF value # None /\ value # "" THEN value
         ELSE get_field_value(lead_data, Tail(field_keys))

\* only the first key of each priority list counts as mapped
all_mapped_source_keys_FirstOnly ==
    {FIELD_MAPPINGS[n][2][1] : n \in DOMAIN FIELD_MAPPINGS}

\* {item for sublist in FIELD_MAPPINGS.values() for item in sublist}
all_mapped_source_keys ==
    UNION {{FIELD_MAPPINGS[n][2][j] : j \in DOMAIN FIELD_MAPPINGS[n][2]} :
              n \in DOMAIN FIELD_MAPPINGS}

\* the mapped keys are not taken out
build_other_json_AllKeys(lead_data, mapped_keys) ==
    {<<k, lead_data[k]>> : k \in {u \in DOMAIN lead_data :
                                     lead_data[u] # None /\ lead_data[u] # ""}}

\* the non-empty fields of the lead that no canonical column reads
build_other_json(lead_data, mapped_keys) ==
    {<<k, lead_data[k]>> : k \in {u \in DOMAIN lead_data \ mapped_keys :
                                     lead_data[u] # None /\ lead_data[u] # ""}}

\* datetime.utcnow().isoformat() and .strftime("%Y-%m-%d") at tick `now`
IsoTime(now) == ToString(now)

timestamp_fields == {"time_listed", "Last_Sale_Date"}

\* re.match(r'^\d+\s+(minute|hour|day|week|month|year)', field_value, re.I)
IsRelativeTime(field_value) == field_value \in {"34 minutes", "4 days ago"}

\* no four digits in a row and one of the non_date_keywords in the value
IsNonDateLabel(field_value) == field_value \in {"Single-family"}

\* pd.to_datetime(value).isoformat(); None for a value that is no date
parse_datetime(value) ==
    CASE value = "2021-03-04" -> "2021-03-04T00:00:00"
      [] value = "03/04/2021" -> "2021-03-04T00:00:00"
      [] OTHER -> None

\* a value that does not parse is stored as it is
clean_timestamp_KeepUnparsed(value) ==
    IF ~Truthy(value) THEN None
    ELSE LET field_value == Strip(value) IN
         IF IsRelativeTime(field_value) THEN None
         ELSE IF IsNonDateLabel(field_value) THEN None
         ELSE IF parse_datetime(field_value) # None
              THEN parse_datetime(field_value)
              ELSE field_value

\* the validation of a timestamp field: the parsed value, or None when the
\* field is popped from the payload
clean_timestamp(value) ==
    IF ~Truthy(value) THEN None
    ELSE LET field_value == Strip(value) IN
         IF IsRelativeTime(field_value) THEN None
         ELSE IF IsNonDateLabel(field_value) THEN None
         ELSE parse_datetime(field_value)

\* supabase_payload[supabase_col] after the type conversions
column_value(lead_data, supabase_col) ==
    IF supabase_col \in timestamp_fields
    THEN clean_timestamp(get_field_value(lead_data, SourceKeys(supabase_col)))
    ELSE get_field_value(lead_data, SourceKeys(supabase_col))

\* final_payload: the columns with a value, the time stamps, the flag and
\* the 'other' bag when it is not empty
final_payload(lead_data, now) ==
    LET cols == {c \in MappedColumns : column_value(lead_data, c) # None}
        other == build_other_json(lead_data, all_mapped_source_keys)
        extra == {"scrape_date", "last_scraped_at", "active"} \cup
                 (IF other = {} THEN {} ELSE {"other"})
    IN  [c \in cols \cup extra |->
            CASE c = "scrape_date" -> IsoTime(now)
              [] c = "last_scraped_at" -> IsoTime(now)
              [] c = "active" -> "True"
              [] c = "other" -> other
              [] OTHER -> column_value(lead_data, c)]

\* the rows of the table whose property_url is url
RowsOf(table, url) == {n \in DOMAIN table : table[n]["property_url"] = url}

\* the row is replaced by the payload: its other columns are lost
MergeRow_Replace(row, payload) == payload

\* a partial-column update of a row: the columns of the payload are
\* replaced, the others are left as they are
MergeRow(row, payload) ==
    [c \in DOMAIN row \cup DOMAIN payload |->
        IF c \in DOMAIN payload THEN payload[c] ELSE row[c]]

\* a plain insert: no conflict target
Upsert_InsertOnly(table, payload) == Append(table, payload)

\* table('listings').upsert(payload, on_conflict='property_url')
Upsert(table, payload) ==
    IF RowsOf(table, payload["property_url"]) = {}
    THEN Append(table, payload)
    ELSE [n \in DOMAIN table |->
             IF table[n]["property_url"] = payload["property_url"]
             THEN MergeRow(table[n], payload) ELSE table[n]]

\* what a call meets: no client, or the answer of the store to the upsert
StoreOutcomes == {"no_client", "ok", "error", "raises"}

\* .insert(final_payload) in place of the upsert
save_lead_to_supabase_PlainInsert(lead_data, table, now, store) ==
    IF store = "no_client" THEN <<FALSE, table>>
    ELSE IF ~Truthy(Get(lead_data, "property_url")) THEN <<FALSE, table>>
    ELSE IF store = "ok" THEN <<TRUE, Append(table, final_payload(lead_data, now))>>
    ELSE <<FALSE, table>>

\* save_lead_to_supabase(lead_data): <<return value, the table afterwards>>
save_lead_to_supabase(lead_data, table, now, store) ==
    IF store = "no_client" THEN <<FALSE, table>>
    ELSE IF ~Truthy(Get(lead_data, "property_url")) THEN <<FALSE, table>>
    ELSE IF store = "ok" THEN <<TRUE, Upsert(table, final_payload(lead_data, now))>>
    ELSE <<FALSE, table>>

\* the clock may have ticked since it was last read
Ticks == {c \in clock..(clock + 1) : c <= MaxClock}

----------------------------------------------------------------------------
(* run_enrichment_pipeline *)

\* pd.read_csv: the rows of the file, or FileNotFoundError
LoadCsv ==
    /\ run = "load"
    /\ \/ \E n \in 0..NumLeads : \E rows \in [1..n -> CsvRows] :
            /\ leads' = rows
            /\ task' = [i \in 1..n |-> NewTask]
            /\ run' = "gather"
       \/ /\ run' = "nofile"
          /\ UNCHANGED <<leads, task>>
    /\ UNCHANGED <<sem, stats, debug_sample_count, upload_idx, upserted,
                   listings, clock>>
    /\ UNCHANGED <<call, farm>>

\* gather has every result: browser.close(), the statistics line, the CSV
GatherDone ==
    /\ run = "gather"
    /\ \A i \in Items : task[i].pc = "done"
    /\ run' = "upload"
    /\ upload_idx' = 1
    /\ UNCHANGED <<leads, task, sem, stats, debug_sample_count, upserted,
                   listings, clock>>
    /\ UNCHANGED <<call, farm>>

\* one iteration of `for lead in enriched_results`
Upload ==
    /\ run = "upload"
    /\ upload_idx <= Len(leads)
    /\ \E now \in Ticks, store \in StoreOutcomes :
         LET res == save_lead_to_supabase(leads[upload_idx], listings, now, store) IN
           /\ listings' = res[2]
           /\ clock' = now
           /\ IF res[1]
              THEN /\ stats' = [stats EXCEPT !["saved_to_db"] = @ + 1]
                   /\ upserted' = upserted \cup {upload_idx}
              ELSE UNCHANGED <<stats, upserted>>
    /\ upload_idx' = upload_idx + 1
    /\ UNCHANGED <<run, leads, task, sem, debug_sample_count>>
    /\ UNCHANGED <<call, farm>>

\* the end-of-run report
Report ==
    /\ run = "upload"
    /\ upload_idx > Len(leads)
    /\ run' = "done"
    /\ UNCHANGED <<leads, task, sem, stats, debug_sample_count, upload_idx,
                   upserted, listings, clock>>
    /\ UNCHANGED <<call, farm>>

----------------------------------------------------------------------------
(* Specifications *)

NoStats == [enriched |-> 0, failed |-> 0, skipped |-> 0, saved_to_db |-> 0]

\* no function is being called on its own
NoResult == [nth |-> 0, ok |-> FALSE, sent |-> FALSE, value |-> None]

NoCall == arg = None /\ result = NoResult

\* no orchestrator, no worker, no Redis list
NoFarm ==
    /\ orch = "off"
    /\ queue = <<>>
    /\ worker = <<>>
    /\ delivered = {}
    /\ completed = {}

\* no run of Enrichment.py
NoPipeline ==
    /\ leads = <<>>
    /\ task = <<>>
    /\ sem = CONCURRENCY_LIMIT
    /\ stats = NoStats
    /\ debug_sample_count = 0
    /\ upload_idx = 0
    /\ upserted = {}

Init ==
    /\ run = "load"
    /\ leads = <<>>
    /\ task = <<>>
    /\ sem = CONCURRENCY_LIMIT
    /\ stats = NoStats
    /\ debug_sample_count = 0
    /\ upload_idx = 0
    /\ upserted = {}
    /\ listings = <<>>
    /\ clock = 0
    /\ NoCall
    /\ NoFarm

TaskStep(i) ==
    \/ Start(i)
    \/ NewContext(i)
    \/ NewContextRaises(i)
    \/ NewPage(i)
    \/ ProxyFetch(i)
    \/ DirectFetch(i)
    \/ LoadPage(i)
    \/ Cleanup(i)
    \/ Cancel(i)

Next ==
    \/ LoadCsv
    \/ \E i \in Items : TaskStep(i)
    \/ GatherDone
    \/ Upload
    \/ Report

Spec == Init /\ [][Next]_vars

\* The debug samples near their cap: some items have finished, each with a
\* sample written, and NumInFlight items have their page loaded and wait
\* for it to settle
InitSample ==
    /\ run = "gather"
    /\ \E k \in 0..MAX_DEBUG_SAMPLES :
          /\ leads = [i \in 1..(k + NumInFlight) |->
                         IF i <= k THEN DictUpdate(RowSeparate, SomeFields)
                         ELSE RowSeparate]
          /\ task = [i \in 1..(k + NumInFlight) |->
                        IF i <= k
                        THEN [NewTask EXCEPT !.pc = "done", !.hits = 1,
                                             !.outcome = "enriched",
                                             !.sample = i - 1]
                        ELSE [NewTask EXCEPT !.pc = "settle", !.attempts = 1,
                                             !.gotos = 1, !.fetch_success = TRUE,
                                             !.nav = [kind |-> "response",
                                                      status |-> 200,
                                                      url |-> TargetUrl],
                                             !.context = TRUE, !.page = TRUE]]
          /\ stats = [NoStats EXCEPT !["enriched"] = k]
          /\ debug_sample_count = k
    /\ sem = CONCURRENCY_LIMIT - NumInFlight
    /\ upload_idx = 0
    /\ upserted = {}
    /\ listings = <<>>
    /\ clock = 0
    /\ NoCall
    /\ NoFarm

NextSample ==
    \/ \E i \in Items : LoadPage(i)
    \/ \E i \in Items : Cleanup(i)
    \/ \E i \in Items : Cancel(i)
    \/ GatherDone

SpecSample == InitSample /\ [][NextSample]_vars

\* The semaphore under contention: more leads than permits, the first one
\* without city and state (it is skipped), and a browser that refuses every
\* new context
SemRows == [i \in 1..NumSemLeads |-> IF i = 1 THEN RowBare ELSE RowSeparate]

InitSem ==
    /\ run = "gather"
    /\ leads = SemRows
    /\ task = [i \in 1..NumSemLeads |-> NewTask]
    /\ sem = CONCURRENCY_LIMIT
    /\ stats = NoStats
    /\ debug_sample_count = 0
    /\ upload_idx = 0
    /\ upserted = {}
    /\ listings = <<>>
    /\ clock = 0
    /\ NoCall
    /\ NoFarm

NextSem ==
    \/ \E i \in Items : Start(i)
    \/ \E i \in Items : NewContextRaises(i)
    \/ GatherDone

SpecSem == InitSem /\ [][NextSem]_vars

\* The store under any sequence of saves
LeadInputs == [property_url : {"", "u1", "u2"}, address : {"", "12 Oak St"},
               street : {"", "9 Elm Rd"}, city : {"", "Troy"}, state : {""},
               zip_code : {""}, full_name : {"", "John Doe"},
               notes : {"", "fsbo"}]

\* one call of save_lead_to_supabase, by any caller
SaveLead ==
    /\ run = "store"
    /\ \E lead_data \in LeadInputs, now \in Ticks, store \in StoreOutcomes :
         /\ listings' = save_lead_to_supabase(lead_data, listings, now, store)[2]
         /\ clock' = now
    /\ UNCHANGED <<run, leads, task, sem, stats, debug_sample_count,
                   upload_idx, upserted>>
    /\ UNCHANGED <<call, farm>>

InitStore ==
    /\ run = "store"
    /\ leads = <<>>
    /\ task = <<>>
    /\ sem = CONCURRENCY_LIMIT
    /\ stats = NoStats
    /\ debug_sample_count = 0
    /\ upload_idx = 0
    /\ upserted = {}
    /\ listings = <<>>
    /\ clock = 0
    /\ NoCall
    /\ NoFarm

NextStore == SaveLead

SpecStore == InitStore /\ [][NextStore]_vars

\* One lead of any shape: its address in one column or spread over several,
\* with columns that are blank or disagree with the address string
AddressTexts == {"", "12 Oak St", "12 Oak St, Troy",
                 "12 Oak St, Troy, NY 12180", "12180"}

SkipRows ==
    {[EmptyRow EXCEPT !["address"] = a, !["city"] = c, !["state"] = st,
                      !["zip_code"] = z] :
        a \in AddressTexts, c \in {"", " ", "Troy", "Albany"},
        st \in {"", "NY", "VT"}, z \in {"", "05401"}}

InitSkip ==
    /\ run = "gather"
    /\ leads \in {<<row>> : row \in SkipRows}
    /\ task = <<NewTask>>
    /\ sem = CONCURRENCY_LIMIT
    /\ stats = NoStats
    /\ debug_sample_count = 0
    /\ upload_idx = 0
    /\ upserted = {}
    /\ listings = <<>>
    /\ clock = 0
    /\ NoCall
    /\ NoFarm

NextSkip ==
    \E i \in Items :
        \/ Start(i)
        \/ NewContext(i)
        \/ NewContextRaises(i)
        \/ NewPage(i)
        \/ ProxyFetch(i)
        \/ DirectFetch(i)
        \/ LoadPage(i)
        \/ Cleanup(i)

SpecSkip == InitSkip /\ [][NextSkip]_vars

\* One caller and its lead: the lead is saved, saved again, and replaced by
\* the next lead the caller holds (a later scrape of the same listing)
TimeTexts == {"", "34 minutes", "4 days ago", "Single-family", "2021-03-04",
              "Condo built 1990"}

SaveInputs ==
    [property_url : {"", "u1"}, address : {"", "12 Oak St"},
     street : {"", "9 Elm Rd"}, full_name : {"", "John Doe"},
     notes : {"fsbo"}] \cup
    [property_url : {"u1"}, Address : {"12 Oak St"}, City : {"", "Troy"},
     city : {"", "Albany"}] \cup
    [property_url : {"u1"}, time_listed : TimeTexts,
     last_sale_date : {"", "03/04/2021"}]

\* the payload handed to upsert, when the call gets that far
sent_payload(lead_data, now, store) ==
    IF store # "no_client" /\ Truthy(Get(lead_data, "property_url"))
    THEN [sent |-> TRUE, value |-> final_payload(lead_data, now)]
    ELSE [sent |-> FALSE, value |-> None]

\* save_lead_to_supabase(lead_data), the n-th call with this lead
SaveCall ==
    /\ run = "save"
    /\ \E now \in Ticks, store \in StoreOutcomes :
         LET res == save_lead_to_supabase(arg, listings, now, store)
             out == sent_payload(arg, now, store)
         IN  /\ listings' = res[2]
             /\ clock' = now
             /\ result' = [nth |-> IF result.nth < 2 THEN result.nth + 1 ELSE 2,
                           ok |-> res[1], sent |-> out.sent,
                           value |-> out.value]
    /\ UNCHANGED <<arg, pipeline, farm>>

\* the caller goes on to its next lead
NextLead ==
    /\ run = "save"
    /\ \E lead_data \in SaveInputs \ {arg} : arg' = lead_data
    /\ result' = NoResult
    /\ UNCHANGED <<listings, clock, pipeline, farm>>

InitSave ==
    /\ run = "save"
    /\ NoPipeline
    /\ listings = <<>>
    /\ clock = 0
    /\ arg \in SaveInputs
    /\ result = NoResult
    /\ NoFarm

NextSave == SaveCall \/ NextLead

SpecSave == InitSave /\ [][NextSave]_vars

----------------------------------------------------------------------------
(* TruePeopleSearchParser.extract_property_data, for one property field *)

\* three of the property_fields: a price, the year, a field stored as found
PropertyFields == {"estimated_value", "year_built_enriched", "land_use"}

\* the texts an element of the page can hold
Texts == {"", "N/A", "$250,000", "unknown"}

\* what a strategy comes back with: None (no element, or an exception
\* that was logged), or the text of the element it found
StrategyOutputs == {None} \cup Texts

\* value.lower() in ['n/a', 'na', 'not available', '', 'none']
IsPlaceholder(value) == value \in {"N/A", ""}

\* the cleaning of a found value: None when the value is dropped
clean_property_value(field_name, value) ==
    IF IsPlaceholder(Strip(value)) THEN None
    ELSE IF field_name \in {"estimated_value", "estimated_equity", "last_sale_amount"}
         THEN \* re.sub(r'[^\d.]', '', value), kept when it has a digit
              CASE value = "$250,000" -> "250000"
                [] OTHER -> None
    ELSE IF field_name = "year_built_enriched"
         THEN \* re.search(r'\b(19|20)\d{2}\b', value)
              CASE value = "built 1987" -> "1987"
                [] OTHER -> None
    ELSE value

\* a page as the four strategies of one field see it; card: the property
\* card, or the text 'estimated value', is on the page
Documents(field_name) ==
    {doc \in [card : BOOLEAN, css : StrategyOutputs, xpath : StrategyOutputs,
              label : StrategyOutputs, alt : StrategyOutputs] :
        /\ doc.css # None => doc.card
        /\ doc.alt # None => doc.card
        /\ (field_name = "estimated_value" /\ doc.label # None) => doc.card}

\* the body of the loop over property_fields for one field: the dict
\* entries it adds to data
extract_property_field(field_name, doc) ==
    IF ~doc.card THEN NoFields
    ELSE LET css == IF doc.css # None THEN doc.css ELSE None
             xpath == IF ~Truthy(css) THEN doc.xpath ELSE css
             label == IF ~Truthy(xpath) /\ doc.label # None THEN doc.label ELSE xpath
             alt == IF ~Truthy(label) /\ doc.alt # None THEN doc.alt ELSE label
             value == IF Truthy(alt) THEN clean_property_value(field_name, alt)
                      ELSE alt
         IN  IF value # None THEN {<<field_name, value>>} ELSE NoFields

ExtractInputs ==
    UNION {[field_name : {f}, doc : Documents(f)] : f \in PropertyFields}

\* extract_property_data(soup, html_content), as far as one field goes
ExtractProperty ==
    /\ run = "extract"
    /\ result.nth = 0
    /\ result' = [nth |-> 1, ok |-> TRUE, sent |-> FALSE,
                  value |-> extract_property_field(arg.field_name, arg.doc)]
    /\ UNCHANGED <<arg, pipeline, listings, clock, farm>>

InitExtract ==
    /\ run = "extract"
    /\ NoPipeline
    /\ listings = <<>>
    /\ clock = 0
    /\ arg \in ExtractInputs
    /\ result = NoResult
    /\ NoFarm

NextExtract == ExtractProperty

SpecExtract == InitExtract /\ [][NextExtract]_vars

----------------------------------------------------------------------------
(* orchestrator.py and worker.py: the jobs of the Redis list *)

\* a lead with its address and a field known before the enrichment
JobComplete == [property_url |-> "u1", street |-> "12 Oak St", city |-> "Troy",
                state |-> "NY", full_name |-> "Jane Roe"]

\* a lead without a city
JobNoCity == [property_url |-> "u2", street |-> "12 Oak St", city |-> "",
              state |-> "NY", full_name |-> ""]

JobRows == {JobComplete, JobNoCity}

NoLead == [property_url |-> "", street |-> "", city |-> "", state |-> "",
           full_name |-> ""]

\* the entries of the list: the JSON string of a lead; id tells apart two
\* entries of the list, it is no part of the string
Entry(id, lead) == [id |-> id, payload |-> lead]

\* json.loads(job_payload)
json_loads(entry) == entry.payload

\* what extract_data_with_ollama returns: {} (also on any exception), the
\* fields found, or a field the model did not find and set to null
AiOutputs == {NoFields, {<<"full_name", "John Doe">>}, {<<"full_name", None>>}}

NewWorker == [pc |-> "connect", job |-> 0, lead_data |-> NoLead,
              context |-> FALSE, page |-> FALSE]

Workers == DOMAIN worker

\* pd.read_csv(CSV_PATH), or FileNotFoundError
OrchLoad ==
    /\ orch = "load"
    /\ \/ \E n \in 0..NumJobs : \E rows \in [1..n -> JobRows] :
            /\ leads' = rows
            /\ orch' = "connect"
       \/ /\ orch' = "failed"
          /\ UNCHANGED leads
    /\ UNCHANGED <<run, task, sem, stats, debug_sample_count, upload_idx,
                   upserted, listings, clock, call, queue, worker, delivered,
                   completed>>

\* the list is deleted before the connection is tested
OrchConnect_ClearFirst ==
    /\ orch = "connect"
    /\ queue' = <<>>
    /\ orch' \in {"push", "failed"}
    /\ UNCHANGED <<pipeline, listings, clock, call, worker, delivered, completed>>

\* redis.Redis(...); r.ping(), or ConnectionError
OrchConnect ==
    /\ orch = "connect"
    /\ orch' \in {"clear", "failed"}
    /\ UNCHANGED <<pipeline, listings, clock, call, queue, worker, delivered,
                   completed>>

\* r.delete(REDIS_QUEUE_NAME)
OrchClear ==
    /\ orch = "clear"
    /\ queue' = <<>>
    /\ orch' = "push"
    /\ UNCHANGED <<pipeline, listings, clock, call, worker, delivered, completed>>

\* pipe.lpush(...) for every lead, pipe.execute(): the first lead ends up
\* rightmost
OrchPush ==
    /\ orch = "push"
    /\ queue' = [k \in 1..Len(leads) |->
                    Entry(Len(leads) + 1 - k, leads[Len(leads) + 1 - k])] \o queue
    /\ orch' = "done"
    /\ UNCHANGED <<pipeline, listings, clock, call, worker, delivered, completed>>

\* the rightmost entry is read and left in the list
brpop_Peek(q) == <<q[Len(q)], q>>

\* r.brpop(REDIS_QUEUE_NAME) on a list that is not empty: the rightmost
\* entry, and the list without it
brpop(q) == <<q[Len(q)], SubSeq(q, 1, Len(q) - 1)>>

\* redis.Redis(...); r.ping() of a worker, or ConnectionError
WorkerConnect(w) ==
    /\ worker[w].pc = "connect"
    /\ \E pc \in {"launch", "stopped"} : worker' = [worker EXCEPT ![w].pc = pc]
    /\ UNCHANGED <<pipeline, listings, clock, call, orch, queue, delivered,
                   completed>>

\* p.chromium.launch(headless=True)
WorkerLaunch(w) ==
    /\ worker[w].pc = "launch"
    /\ worker' = [worker EXCEPT ![w].pc = "pop"]
    /\ UNCHANGED <<pipeline, listings, clock, call, orch, queue, delivered,
                   completed>>

\* job = r.brpop(REDIS_QUEUE_NAME, timeout=10): a job, or None after the
\* timeout on an empty list
WorkerPop(w) ==
    /\ worker[w].pc = "pop"
    /\ IF queue # <<>>
       THEN LET job == brpop(queue) IN
              /\ queue' = job[2]
              /\ worker' = [worker EXCEPT ![w].pc = "job", ![w].job = job[1].id,
                                          ![w].lead_data = json_loads(job[1]),
                                          ![w].context = FALSE,
                                          ![w].page = FALSE]
              /\ delivered' = delivered \cup {<<job[1].id, w>>}
       ELSE /\ worker' = [worker EXCEPT ![w].pc = "close_browser"]
            /\ UNCHANGED <<queue, delivered>>
    /\ UNCHANGED <<pipeline, listings, clock, call, orch, completed>>

\* the job is let go: process_job has returned, or its exception was logged
Released(wk) == [wk EXCEPT !.pc = "pop", !.job = 0, !.lead_data = NoLead]

\* process_job up to its first await: the address check
ProcessJob(w) ==
    /\ worker[w].pc = "job"
    /\ IF \/ worker[w].lead_data["street"] = ""
          \/ worker[w].lead_data["city"] = ""
          \/ worker[w].lead_data["state"] = ""
       THEN /\ worker' = [worker EXCEPT ![w] = Released(@)]
            /\ completed' = completed \cup {worker[w].job}
       ELSE /\ worker' = [worker EXCEPT ![w].pc = "context"]
            /\ UNCHANGED completed
    /\ UNCHANGED <<pipeline, listings, clock, call, orch, queue, delivered>>

\* await browser.new_context(...): the context, or an exception that is
\* logged
JobContext(w) ==
    /\ worker[w].pc = "context"
    /\ \/ worker' = [worker EXCEPT ![w].context = TRUE, ![w].pc = "page"]
       \/ worker' = [worker EXCEPT ![w] = Released(@)]
    /\ UNCHANGED <<pipeline, listings, clock, call, orch, queue, delivered,
                   completed>>

\* await context.new_page() and await page.goto(search_url)
JobGoto(w) ==
    /\ worker[w].pc = "page"
    /\ \/ worker' = [worker EXCEPT ![w].page = TRUE, ![w].pc = "extract"]
       \/ worker' = [worker EXCEPT ![w].pc = "closing"]
       \/ worker' = [worker EXCEPT ![w].page = TRUE, ![w].pc = "closing"]
    /\ UNCHANGED <<pipeline, listings, clock, call, orch, queue, delivered,
                   completed>>

\* await extract_data_with_ollama(...), lead_data.update(...),
\* save_lead_to_supabase(lead_data)
JobExtractAndSave(w) ==
    /\ worker[w].pc = "extract"
    /\ \E ai_extracted_data \in AiOutputs, now \in Ticks, store \in StoreOutcomes :
         LET lead_data == IF ai_extracted_data # NoFields
                          THEN DictUpdate(worker[w].lead_data, ai_extracted_data)
                          ELSE worker[w].lead_data
         IN  /\ worker' = [worker EXCEPT ![w].lead_data = lead_data,
                                         ![w].pc = "closing"]
             /\ listings' = save_lead_to_supabase(lead_data, listings, now, store)[2]
             /\ clock' = now
    /\ completed' = completed \cup {worker[w].job}
    /\ UNCHANGED <<pipeline, call, orch, queue, delivered>>

\* the finally clause of process_job: page.close(), context.close(); an
\* exception of either is logged by main, which sleeps and pops again
JobClose(w) ==
    /\ worker[w].pc = "closing"
    /\ \/ worker' = [worker EXCEPT ![w] =
                         Released([@ EXCEPT !.page = FALSE, !.context = FALSE])]
       \/ /\ worker[w].page
          /\ worker' = [worker EXCEPT ![w] = Released(@)]
       \/ worker' = [worker EXCEPT ![w] = Released([@ EXCEPT !.page = FALSE])]
    /\ UNCHANGED <<pipeline, listings, clock, call, orch, queue, delivered,
                   completed>>

\* await browser.close() after the loop
WorkerShutdown(w) ==
    /\ worker[w].pc = "close_browser"
    /\ worker' = [worker EXCEPT ![w].pc = "finished", ![w].context = FALSE,
                                ![w].page = FALSE]
    /\ UNCHANGED <<pipeline, listings, clock, call, orch, queue, delivered,
                   completed>>

\* the worker process dies: nothing of main or process_job runs any more
WorkerCrash(w) ==
    /\ worker[w].pc \notin {"stopped", "finished", "crashed"}
    /\ worker' = [worker EXCEPT ![w].pc = "crashed"]
    /\ UNCHANGED <<pipeline, listings, clock, call, orch, queue, delivered,
                   completed>>

InitFarm ==
    /\ run = "farm"
    /\ NoPipeline
    /\ listings = <<>>
    /\ clock = 0
    /\ NoCall
    /\ orch = "load"
    /\ queue = <<>>
    /\ worker = [w \in 1..NumWorkers |-> NewWorker]
    /\ delivered = {}
    /\ completed = {}

NextFarm ==
    \/ OrchLoad
    \/ OrchConnect
    \/ OrchClear
    \/ OrchPush
    \/ \E w \in Workers : WorkerConnect(w)
    \/ \E w \in Workers : WorkerLaunch(w)
    \/ \E w \in Workers : WorkerPop(w)
    \/ \E w \in Workers : ProcessJob(w)
    \/ \E w \in Workers : JobContext(w)
    \/ \E w \in Workers : JobGoto(w)
    \/ \E w \in Workers : JobExtractAndSave(w)
    \/ \E w \in Workers : JobClose(w)
    \/ \E w \in Workers : WorkerShutdown(w)
    \/ \E w \in Workers : WorkerCrash(w)

SpecFarm == InitFarm /\ [][NextFarm]_vars

----------------------------------------------------------------------------
(* Properties *)

AllFinished == run # "load" /\ run # "nofile" /\ \A i \in Items : Finished(task[i])

\* the tasks that hold a permit of the semaphore
Holders == {i \in Items : task[i].pc \in {"new_context", "new_page", "proxy",
                                          "direct", "settle", "closing"}}

IsHttpError(r) == r.kind = "response" /\ r.status >= 400

\* the statuses the fetch layer treats as a soft block
SoftBlockStatuses == {403, 429, 502, 503}

\* the outcomes after which the loop goes on to its next attempt
Retried(r) ==
    \/ r.kind # "response"
    \/ r.status >= 400
    \/ ~OnDomain(r.url) /\ IsChallengeUrl(r.url)

\* C1: when all tasks of a run have finished, every item has incremented
\* exactly one of enriched / failed / skipped exactly once, and the three
\* counters add up to the number of items.
C1_EveryItemCountedOnce ==
    AllFinished =>
        /\ \A i \in Items : task[i].hits = 1
        /\ stats["enriched"] + stats["failed"] + stats["skipped"] = Len(task)

\* C2: a failure while processing one item stays with that item: no
\* exception leaves a task, no task is cancelled, the run is not aborted.
C2_FailureContained ==
    /\ run # "aborted"
    /\ \A i \in Items : task[i].pc \notin {"raised", "cancelled"}

\* C3: a task makes at most max_retries logical fetch attempts; the proxy
\* try and its direct fallback are two navigations of one attempt.
C3_AttemptBound ==
    \A i \in Items :
        /\ task[i].attempts <= max_retries
        /\ task[i].attempt < max_retries
        /\ task[i].gotos <= task[i].attempts + 1

\* an item failed after the proxy try, its fallback and a second attempt
C3_Witness ==
    \E i \in Items :
        /\ task[i].pc = "closing"
        /\ task[i].outcome = "failed"
        /\ task[i].attempts = max_retries
        /\ task[i].gotos = 3

\* C4: a fetch whose last attempt returned an HTTP status >= 400 is not a
\* success: fetch_success is not set and the extraction is not reached.
C4_HttpErrorNeverExtracted ==
    \A i \in Items :
        (task[i].fetch_success \/ task[i].pc = "settle") => ~IsHttpError(task[i].nav)

\* C5 as claimed: a further attempt is under way only after a soft block,
\* a timeout or a network error, never after a status such as 404.
C5_NotFoundIsTerminal ==
    \A i \in Items :
        (task[i].pc = "direct" /\ task[i].attempt >= 1) =>
            \/ task[i].nav.kind # "response"
            \/ task[i].nav.status \in SoftBlockStatuses
            \/ ~OnDomain(task[i].nav.url)

\* C5 as amended: before the last attempt every failed direct fetch (any
\* status >= 400, a redirect to a challenge URL, no response, an exception)
\* is followed by a further attempt, and only such a fetch is.
C5_EveryFailureRetried ==
    \A i \in Items :
        /\ (task[i].pc = "direct" /\ task[i].attempt >= 1) => Retried(task[i].nav)
        /\ (task[i].pc = "settle" /\ task[i].attempt = 0) => ~Retried(task[i].nav)

\* a second attempt under way after a 404 of the first
C5_Witness ==
    \E i \in Items :
        /\ task[i].pc = "direct"
        /\ task[i].attempt = 1
        /\ task[i].nav.kind = "response"
        /\ task[i].nav.status = 404

\* C6: fetch_success is never set, and the extraction never reached, on a
\* response whose final URL is off the target domain.
C6_OffDomainNeverExtracted ==
    \A i \in Items :
        (task[i].fetch_success /\ task[i].nav.kind = "response") =>
            OnDomain(task[i].nav.url)

\* C7: at most CONCURRENCY_LIMIT tasks hold a permit, and the permits not
\* held are all back in the semaphore, whichever way the tasks have left.
C7_SemaphoreBound ==
    /\ Cardinality(Holders) <= CONCURRENCY_LIMIT
    /\ sem >= 0
    /\ sem + Cardinality(Holders) = CONCURRENCY_LIMIT

\* every permit is held, a task waits for one, and a task that held a
\* permit has left through the except clause and given it back
C7_Witness ==
    /\ Cardinality(Holders) = CONCURRENCY_LIMIT
    /\ \E i \in Items : task[i].pc = "queued"
    /\ \E i \in Items : task[i].pc = "done" /\ task[i].outcome = "failed"

\* C8: a page with a blocking indicator or a no-results marker yields no
\* field, nothing is merged into the lead, and the item is counted failed.
C8_BlockedPageYieldsNothing ==
    \A i \in Items :
        (/\ task[i].pc = "closing"
         /\ ~task[i].html.empty
         /\ HasBlockingIndicator(task[i].html) \/ HasNoResultsMarker(task[i].html))
        => /\ task[i].extracted = NoFields
           /\ leads[i]["full_name"] = ""
           /\ task[i].outcome = "failed"
           /\ task[i].hits = 1

\* a captcha page that also holds the data of a resident
C8_Witness ==
    \E i \in Items :
        /\ task[i].pc = "closing"
        /\ task[i].html.marker = "captcha"
        /\ task[i].html.fields = SomeFields

\* C9 as claimed: the store receives an upsert only for enriched items.
C9_OnlyEnrichedUpserted ==
    \A i \in upserted : task[i].outcome = "enriched"

\* C9 as amended: every item of a completed run that has a property_url is
\* saved, whatever its outcome; the lead saved for an item that was not
\* enriched carries no field extracted from a page.
C9_UnenrichedUpsertCarriesNoExtraction ==
    /\ upserted # {} => run \in {"upload", "done"}
    /\ \A i \in upserted :
          /\ task[i].pc = "done"
          /\ Truthy(leads[i]["property_url"])
          /\ task[i].outcome # "enriched" =>
                "Full_Name" \notin DOMAIN final_payload(leads[i], clock)

\* a failed item and a skipped item, both upserted
C9_Witness ==
    /\ \E i \in upserted : task[i].outcome = "failed"
    /\ \E i \in upserted : task[i].outcome = "skipped"

\* C10: the listings table holds at most one row per property_url.
C10_OneRowPerUrl ==
    \A m, n \in DOMAIN listings :
        listings[m]["property_url"] = listings[n]["property_url"] => m = n

\* two rows, the older of which was saved again after the newer was added
C10_Witness ==
    /\ Len(listings) = 2
    /\ listings[2]["last_scraped_at"] = IsoTime(0)
    /\ listings[1]["last_scraped_at"] = IsoTime(1)

----------------------------------------------------------------------------
(* Properties of save_lead_to_supabase *)

\* the step is a successful save that follows a successful save of the
\* same lead data
SavedAgain ==
    /\ run = "save"
    /\ arg' = arg
    /\ result.ok
    /\ result'.ok
    /\ result'.nth = 2

\* key is a source key of a canonical column
IsSourceKey(key) ==
    \E col \in MappedColumns :
        \E j \in DOMAIN SourceKeys(col) : SourceKeys(col)[j] = key

\* the position of the source key that key is a spelling of
PriorityOf(col, key) ==
    CHOOSE j \in DOMAIN SourceKeys(col) : SourceKeys(col)[j] = Lower(key)

\* the keys of the lead that spell a source key of col, in any letter
\* case, and hold a non-empty value
Spellings(lead_data, col) ==
    {k \in DOMAIN lead_data :
        /\ \E j \in DOMAIN SourceKeys(col) : SourceKeys(col)[j] = Lower(k)
        /\ lead_data[k] # None
        /\ lead_data[k] # ""}

\* the values isoformat() gives for the dates of the model
Iso8601Datetimes == {"2021-03-04T00:00:00"}

\* the columns that move with the clock
StampColumns == {"scrape_date", "last_scraped_at"}

\* C11 as claimed: a second save of the same lead data leaves the table,
\* and with it the stored row, identical in every column.
C11_SecondSaveLeavesRowIdentical ==
    [][SavedAgain => listings' = listings]_vars

\* C11 as amended: a second successful save of the same lead data adds no
\* row and changes no column of any row other than the two stamps that
\* each call takes from the clock (last_scraped_at, scrape_date).
C11_SecondSaveOnlyRestamps ==
    [][SavedAgain =>
          /\ Len(listings') = Len(listings)
          /\ \A n \in DOMAIN listings :
                /\ DOMAIN listings'[n] = DOMAIN listings[n]
                /\ \A c \in DOMAIN listings[n] \ StampColumns :
                      listings'[n][c] = listings[n][c]]_vars

\* the lead was saved a second time after the clock had moved on
C11_Witness ==
    /\ run = "save"
    /\ result.nth = 2
    /\ result.ok
    /\ Len(listings) = 1
    /\ listings[1]["last_scraped_at"] = IsoTime(1)
    /\ "Full_Name" \in DOMAIN listings[1]

\* C12: when the stored row has a value in a canonical column and every
\* source key of that column is empty or absent in the lead data, the
\* payload omits the column and the save leaves the stored value as it is.
C12_EmptySourceKeepsStoredValue ==
    [][(run = "save" /\ result'.ok) =>
          \A n \in DOMAIN listings : \A col \in MappedColumns :
              (/\ listings[n]["property_url"] = arg["property_url"]
               /\ col \in DOMAIN listings[n]
               /\ \A j \in DOMAIN SourceKeys(col) :
                     ~Truthy(Get(arg, SourceKeys(col)[j])))
              => /\ col \notin DOMAIN result'.value
                 /\ col \in DOMAIN listings'[n]
                 /\ listings'[n][col] = listings[n][col]]_vars

\* a lead without a name was saved over a row that holds a name
C12_Witness ==
    /\ run = "save"
    /\ result.ok
    /\ "Full_Name" \notin DOMAIN result.value
    /\ Get(arg, "full_name") \in {None, ""}
    /\ \E n \in DOMAIN listings : "Full_Name" \in DOMAIN listings[n]

\* C17: a canonical column is in the payload exactly when some source key
\* of it, in any letter case, has a non-empty value in the lead data, and
\* it then holds the value of the first such key of the priority list.
C17_SourceKeysMatchedInAnyCase ==
    (run = "save" /\ result.sent) =>
        \A col \in MappedColumns \ timestamp_fields :
            LET found == Spellings(arg, col)
                first == {k \in found : \A u \in found :
                             PriorityOf(col, k) <= PriorityOf(col, u)}
            IN  /\ col \in DOMAIN result.value <=> found # {}
                /\ col \in DOMAIN result.value =>
                       result.value[col] \in {arg[k] : k \in first}

\* C18: the 'other' bag of the payload holds exactly the non-empty fields
\* of the lead data whose key is no source key of a canonical column, each
\* with its value.
C18_OtherBagIsTheUnclaimedFields ==
    (run = "save" /\ result.sent) =>
        LET bag == IF "other" \in DOMAIN result.value
                   THEN result.value["other"] ELSE {}
        IN  /\ \A k \in DOMAIN arg :
                  (arg[k] # "" /\ ~IsSourceKey(k)) <=> <<k, arg[k]>> \in bag
            /\ \A kv \in bag :
                  /\ kv[1] \in DOMAIN arg
                  /\ ~IsSourceKey(kv[1])
                  /\ kv[2] = arg[kv[1]]

\* a payload with a bag, built from a lead that also has mapped fields
C18_Witness ==
    /\ run = "save"
    /\ result.sent
    /\ "other" \in DOMAIN result.value
    /\ "street" \in DOMAIN result.value
    /\ Truthy(Get(arg, "address"))

\* C19: a timestamp column of a payload is absent or an ISO-8601 datetime;
\* a rejected value takes nothing else out of the payload, and the record
\* is stored when the store accepts it.
C19_TimestampColumnsAreDatesOrAbsent ==
    (run = "save" /\ result.sent) =>
        /\ \A f \in timestamp_fields :
              f \in DOMAIN result.value => result.value[f] \in Iso8601Datetimes
        /\ \A col \in MappedColumns \ timestamp_fields :
              get_field_value(arg, SourceKeys(col)) # None =>
                  /\ col \in DOMAIN result.value
                  /\ result.value[col] = get_field_value(arg, SourceKeys(col))
        /\ result.ok =>
              \E n \in DOMAIN listings :
                  \A c \in DOMAIN result.value : /\ c \in DOMAIN listings[n]
                                                 /\ listings[n][c] = result.value[c]

\* a relative time was rejected and the date beside it was stored
C19_Witness ==
    /\ run = "save"
    /\ result.ok
    /\ Get(arg, "time_listed") = "34 minutes"
    /\ "time_listed" \notin DOMAIN result.value
    /\ "Last_Sale_Date" \in DOMAIN result.value

----------------------------------------------------------------------------
(* Properties of the address resolution *)

\* street, city and state as enrich_lead_task holds them after the column
\* lookup and the parsing of the address string
Resolved(lead_data) ==
    ResolveAddress(lead_data,
                   IF NeedsParse(lead_data)
                   THEN parse_full_address(full_address_string(lead_data))
                   ELSE NoParse)

Unresolved(r) ==
    \/ r.address \in {None, ""}
    \/ r.city \in {None, ""}
    \/ r.state \in {None, ""}

\* the value of the first of the columns that is not blank, stripped
Supplied(lead_data, keys) == FirstNonBlank(lead_data, keys)

\* C20: a task leaving the queue is counted as skipped exactly when street,
\* city or state is unresolved after the column lookup and the parsing; a
\* skipped task has no context and no page and never moves again; a city,
\* state or zip of the item's own columns is the one that is used.
C20_SkippedIffUnresolved ==
    [][\A i \in Items :
          /\ (task[i].pc = "queued" /\ task'[i].pc \notin {"queued", "cancelled"}) =>
                /\ task'[i].outcome = "skipped" <=> Unresolved(Resolved(leads[i]))
                /\ task'[i].outcome = "skipped" =>
                      /\ task'[i].pc = "done"
                      /\ task'[i].hits = 1
                      /\ stats'["skipped"] = stats["skipped"] + 1
                /\ task'[i].outcome # "skipped" => task'[i].outcome = "none"
          /\ task[i].outcome = "skipped" =>
                /\ task'[i] = task[i]
                /\ ~task[i].context
                /\ ~task[i].page
                /\ task[i].gotos = 0
          /\ LET r == Resolved(leads[i])
                 city == Supplied(leads[i], <<"city", "City", "CITY">>)
                 state == Supplied(leads[i], <<"state", "State", "STATE">>)
                 zip_code == Supplied(leads[i], <<"zip_code", "zip", "Zip", "ZIP",
                                                  "zipcode", "ZipCode", "ZIPCODE">>)
             IN  /\ city # "" => r.city = city
                 /\ state # "" => r.state = state
                 /\ zip_code # "" => r.zip_code = zip_code]_vars

\* an item skipped for its state, whose own city differs from the city of
\* its address string
C20_Witness ==
    /\ Len(task) = 1
    /\ task[1].outcome = "skipped"
    /\ task[1].pc = "done"
    /\ leads[1]["address"] = "12 Oak St, Troy"
    /\ leads[1]["city"] = "Albany"
    /\ leads[1]["state"] = ""

----------------------------------------------------------------------------
(* Properties of the merge and of the job queue *)

\* the entries the orchestrator has pushed
Enqueued == IF orch = "done" THEN 1..Len(leads) ELSE {}

InQueue(id) == \E n \in DOMAIN queue : queue[n].id = id

\* the workers that hold the entry and are still running
HeldBy(id) == {w \in Workers : worker[w].job = id /\ worker[w].pc # "crashed"}

\* C13: merging extracted fields into a work item, in enrich_lead_task and
\* in process_job, never turns a field that holds a non-empty value into an
\* empty or null one.
C13_MergeKeepsNonEmptyFields ==
    [][/\ \A i \in DOMAIN leads \cap DOMAIN leads' :
             \A k \in DOMAIN leads[i] :
                 Truthy(leads[i][k]) =>
                     k \in DOMAIN leads'[i] /\ Truthy(leads'[i][k])
       /\ \A w \in Workers :
             (worker[w].pc = "extract" /\ worker'[w].pc = "closing") =>
                 \A k \in DOMAIN worker[w].lead_data :
                     Truthy(worker[w].lead_data[k]) =>
                         Truthy(worker'[w].lead_data[k])]_vars

\* C14: an entry that was pushed is in the list, or with a running worker,
\* or has been through process_job to the save (or to the return for a
\* missing address): no crash and no failure of a worker loses it.
C14_DequeuedJobNotLost ==
    \A id \in Enqueued :
        \/ InQueue(id)
        \/ HeldBy(id) # {}
        \/ id \in completed

\* C15: an entry of the list is delivered to at most one worker, and no
\* two workers hold the same entry.
C15_EntryDeliveredOnce ==
    \A id \in Enqueued :
        /\ Cardinality({w \in Workers : <<id, w>> \in delivered}) <= 1
        /\ Cardinality({w \in Workers : worker[w].job = id}) <= 1
        /\ ~(InQueue(id) /\ \E w \in Workers : <<id, w>> \in delivered)

\* two workers at work at the same time, each on an entry of its own
C15_Witness ==
    /\ Cardinality(delivered) = 2
    /\ \E v, w \in Workers :
          /\ v # w
          /\ worker[v].pc = "extract"
          /\ worker[w].pc = "job"
          /\ worker[v].job # worker[w].job

----------------------------------------------------------------------------
(* Properties of extract_property_data *)

\* the outputs of the strategies in the order of their declaration
InOrder(doc) == <<doc.css, doc.xpath, doc.label, doc.alt>>

\* the output is not empty, is no placeholder and passes the cleanup
Succeeds(field_name, value) ==
    /\ value # None
    /\ value # ""
    /\ ~IsPlaceholder(value)
    /\ clean_property_value(field_name, value) # None

\* C16: the field holds the cleaned value of the first strategy, in the
\* order of declaration, whose output is non-empty, no placeholder and
\* passes the cleanup, whatever the strategies before it produced; it is
\* left out when no strategy succeeds.
C16_FirstSucceedingStrategyWins ==
    (run = "extract" /\ result.nth = 1) =>
        LET outs == InOrder(arg.doc)
            good == {n \in DOMAIN outs : Succeeds(arg.field_name, outs[n])}
            first == CHOOSE n \in good : \A m \in good : n <= m
        IN  IF good = {} THEN result.value = NoFields
            ELSE result.value =
                    {<<arg.field_name,
                       clean_property_value(arg.field_name, outs[first])>>}

----------------------------------------------------------------------------
(* The three programs at their start *)

\* an entry a previous run of the orchestrator left in the list, a lead
\* that process_job returns at its address check
StaleQueue == <<Entry(0, JobNoCity)>>

\* either Enrichment.py is run, or orchestrator.py and the workers are, on a
\* list that still holds an entry
InitStartup ==
    /\ NoPipeline
    /\ listings = <<>>
    /\ clock = 0
    /\ NoCall
    /\ \/ /\ run = "load"
          /\ NoFarm
       \/ /\ run = "farm"
          /\ orch = "load"
          /\ queue = StaleQueue
          /\ worker = [w \in 1..NumWorkers |-> NewWorker]
          /\ delivered = {}
          /\ completed = {}

NextStartup == Next \/ NextFarm

SpecStartup == InitStartup /\ [][NextStartup]_vars

----------------------------------------------------------------------------
(* Properties of the start *)

\* the entries of the list that a worker has been given
Popped == {pair[1] : pair \in delivered}

\* C21: on a fatal startup error no partial processing happens: after the
\* orchestrator has failed to read its file or to reach Redis, the list
\* holds no entry of this run and no entry of the old list was deleted; a
\* worker that could not reach Redis has popped nothing and opened nothing;
\* a pipeline without its input file has no task, no counter and no save.
C21_StartupFailureDoesNothing ==
    /\ orch = "failed" =>
          /\ \A id \in 1..NumJobs : ~InQueue(id) /\ id \notin Popped
          /\ \A n \in DOMAIN StaleQueue :
                InQueue(StaleQueue[n].id) \/ StaleQueue[n].id \in Popped
    /\ \A w \in Workers :
          worker[w].pc = "stopped" =>
              /\ \A id \in 0..NumJobs : <<id, w>> \notin delivered
              /\ worker[w] = [NewWorker EXCEPT !.pc = "stopped"]
    /\ run = "nofile" =>
          /\ task = <<>>
          /\ stats = NoStats
          /\ upserted = {}
          /\ listings = <<>>
          /\ upload_idx = 0

\* Redis went away between the start of a worker and the start of the
\* orchestrator: one worker holds the old entry, the orchestrator
\* and the other worker have given up
C21_Witness ==
    /\ orch = "failed"
    /\ leads # <<>>
    /\ \E v, w \in Workers :
          /\ worker[v].pc = "stopped"
          /\ worker[w].pc = "job"
          /\ <<0, w>> \in delivered

----------------------------------------------------------------------------
(* Properties of the resources *)

\* C22: when an item has left enrich_lead_task, by a return, by an
\* exception or by the cancellation of the run, its page and its browser
\* context have been closed.
C22_ItemResourcesClosedOnExit ==
    \A i \in Items :
        Finished(task[i]) => ~task[i].page /\ ~task[i].context

----------------------------------------------------------------------------
(* Properties of the debug samples *)

\* the items that have written a sample file
Samples == {i \in Items : task[i].sample >= 0}

\* C23: under any interleaving of the items at most MAX_DEBUG_SAMPLES
\* sample files are written, their indices are below MAX_DEBUG_SAMPLES, and
\* no two items write the file of the same index.
C23_SamplesCappedAndDistinct ==
    /\ Cardinality(Samples) <= MAX_DEBUG_SAMPLES
    /\ \A i \in Samples : task[i].sample < MAX_DEBUG_SAMPLES
    /\ \A i, j \in Samples : i # j => task[i].sample # task[j].sample

\* the last sample has been written, and an item enriched after it has
\* written none
C23_Witness ==
    /\ Cardinality(Samples) = MAX_DEBUG_SAMPLES
    /\ \E i, j \in Items :
          /\ task[i].sample = MAX_DEBUG_SAMPLES - 1
          /\ task[j].outcome = "enriched"
          /\ task[j].sample = -1

----------------------------------------------------------------------------
(* save_lead_to_supabase before its try block *)

\* a JSON array, as json.loads returns it for the answer of the language
\* model and lead_data.update stores it; the list is modelled by its text
ListTexts == {"['Ann Doe', 'Bob Doe']"}

\* `if pd.isna(value)` for a list of two or more elements: pd.isna returns
\* an array, and the truth value of that array is a ValueError
IsNaRaises(value) == value \in ListTexts

\* the loop over lead_data.items() at the head of save_lead_to_supabase,
\* which runs after the two early returns and before the try block
CleaningRaises(lead_data, store) ==
    /\ store # "no_client"
    /\ Truthy(Get(lead_data, "property_url"))
    /\ \E key \in DOMAIN lead_data : IsNaRaises(lead_data[key])

\* the lead data of a caller: the fields of the job, updated with the
\* fields of the extraction
PersistInputs == [property_url : {"", "u1", "u2"}, full_name : {"", "John Doe"},
                  relatives : {"", "Ann Doe, Bob Doe"} \cup ListTexts]

\* save_lead_to_supabase(lead_data): it returns True or False, or an
\* exception leaves it
PersistCall ==
    /\ run = "persist"
    /\ result.nth = 0
    /\ \E now \in Ticks, store \in StoreOutcomes :
         IF CleaningRaises(arg, store)
         THEN /\ result' = [nth |-> 1, ok |-> FALSE, sent |-> FALSE,
                            value |-> "ValueError"]
              /\ UNCHANGED <<listings, clock>>
         ELSE LET res == save_lead_to_supabase(arg, listings, now, store) IN
                /\ listings' = res[2]
                /\ clock' = now
                /\ result' = [nth |-> 1, ok |-> res[1], sent |-> FALSE,
                              value |-> "returned"]
    /\ UNCHANGED <<arg, pipeline, farm>>

\* the caller goes on to its next lead
PersistNext ==
    /\ run = "persist"
    /\ result.nth = 1
    /\ arg' \in PersistInputs
    /\ result' = NoResult
    /\ UNCHANGED <<listings, clock, pipeline, farm>>

InitPersist ==
    /\ run = "persist"
    /\ NoPipeline
    /\ listings = <<>>
    /\ clock = 0
    /\ arg \in PersistInputs
    /\ result = NoResult
    /\ NoFarm

NextPersist == PersistCall \/ PersistNext

SpecPersist == InitPersist /\ [][NextPersist]_vars

\* C24: save_lead_to_supabase never raises: for any lead data the call
\* returns, with False on every failure, and True only with the row of the
\* lead in the table.
C24_SaveNeverRaises ==
    (run = "persist" /\ result.nth = 1) =>
        /\ result.value = "returned"
        /\ result.ok => RowsOf(listings, arg["property_url"]) # {}

----------------------------------------------------------------------------
(* Properties of the end of the run *)

\* C25: a run that got past loading its input and has no step left to take
\* has emitted the end-of-run summary: it never ends without it.
C25_EndedRunHasSummary ==
    (run \notin {"load", "nofile"} /\ ~ENABLED Next) => run = "done"

----------------------------------------------------------------------------
(* parse_full_address on any text *)

\* A text is the sequence of its parts, the pieces between its blanks; a
\* part is a word and the comma that may follow it: "Oak, NY 12180" is
\* <<Oak with comma, NY, 12180>>.
Words == {"Oak", "NY", "Texas", "12180", "12180-1234", "??"}

Part == [word : Words, comma : BOOLEAN]

Word(w) == [word |-> w, comma |-> FALSE]

\* [A-Z][a-z]+ under re.IGNORECASE: two letters or more
IsAlphaWord(w) == w \in {"Oak", "NY", "Texas"}

\* [A-Z]{2} under re.IGNORECASE; len(part) == 2 and part.isalpha()
IsTwoLetters(w) == w \in {"NY"}

\* [A-Z]{2} without re.IGNORECASE
IsUpperTwo(w) == w \in {"NY"}

\* \d{5}(?:-\d{4})?
IsZip(w) == w \in {"12180", "12180-1234"}

\* the lookahead (?=\d{5})
StartsWithFiveDigits(w) == w \in {"12180", "12180-1234"}

\* str.upper()
Upper(w) == CASE w = "Oak" -> "OAK"
              [] w = "Texas" -> "TEXAS"
              [] OTHER -> w

\* a field of the result: None, or a text (the empty text is '')
Unset == [set |-> FALSE, text |-> <<>>]

Val(t) == [set |-> TRUE, text |-> t]

\* {'street': None, 'city': None, 'state': None, 'zip_code': None}
AllNone == [street |-> Unset, city |-> Unset, state |-> Unset, zip_code |-> Unset]

\* the text without the comma at its end
DropLastComma(t) == IF t = <<>> THEN t
                    ELSE [t EXCEPT ![Len(t)] = Word(@.word)]

Commas(t) == {i \in DOMAIN t : t[i].comma}

Last(S) == CHOOSE m \in S : \A x \in S : x <= m

First(S) == CHOOSE m \in S : \A x \in S : m <= x

RECURSIVE Without(_, _)
\* the text without the parts at the positions S
Without(t, S) ==
    IF t = <<>> THEN <<>>
    ELSE LET front == Without(SubSeq(t, 1, Len(t) - 1), S)
         IN  IF Len(t) \in S THEN front ELSE Append(front, t[Len(t)])

\* the text ends with a ZIP: \d{5}(?:-\d{4})? before $
EndsWithZip(t) == t # <<>> /\ IsZip(t[Len(t)].word) /\ ~t[Len(t)].comma

\* pattern1, "Street, City, ST ZIP" or "Street, City, ST": the position of
\* the state, 0 when the text does not match
Pattern1State(t) ==
    LET s == IF EndsWithZip(t) THEN Len(t) - 1 ELSE Len(t)
    IN  IF /\ s >= 3
           /\ IsTwoLetters(t[s].word)
           /\ ~t[s].comma
           /\ t[s - 1].comma
           /\ Commas(SubSeq(t, 1, s - 2)) # {}
        THEN s ELSE 0

Pattern1(t) ==
    LET s == Pattern1State(t)
        m == Last(Commas(SubSeq(t, 1, s - 2)))
    IN  [street |-> Val(DropLastComma(SubSeq(t, 1, m))),
         city |-> Val(DropLastComma(SubSeq(t, m + 1, s - 1))),
         state |-> Val(<<Word(Upper(t[s].word))>>),
         zip_code |-> IF s < Len(t) THEN Val(<<t[Len(t)]>>) ELSE Unset]

\* pattern2, "Street City ST ZIP": the last three parts are a word, two
\* letters and a ZIP, and a street is before them
Pattern2Matches(t) ==
    LET n == Len(t)
    IN  /\ n >= 4
        /\ EndsWithZip(t)
        /\ IsTwoLetters(t[n - 1].word) /\ ~t[n - 1].comma
        /\ IsAlphaWord(t[n - 2].word) /\ ~t[n - 2].comma

\* address.split(), the state found from the right, the city the one part
\* before it, the street all parts before the city
Pattern2(t) ==
    LET n == Len(t)
    IN  [street |-> Val(SubSeq(t, 1, n - 3)),
         city |-> Val(<<t[n - 2]>>),
         state |-> Val(<<Word(Upper(t[n - 1].word))>>),
         zip_code |-> Val(<<t[n]>>)]

\* pattern3, "Street, City, State ZIP": the position of the comma before
\* the state name, 0 when the text does not match
Pattern3Comma(t) ==
    LET n == Len(t)
        cs == Commas(SubSeq(t, 1, n - 1))
        k == IF cs = {} THEN 0 ELSE Last(cs)
    IN  IF /\ EndsWithZip(t)
           /\ k >= 2
           /\ k <= n - 2
           /\ \A i \in (k + 1)..(n - 1) : IsAlphaWord(t[i].word)
           /\ Commas(SubSeq(t, 1, k - 1)) # {}
        THEN k ELSE 0

\* state_map.get(state_name.lower())
convert_state_name_to_abbr(state_name) ==
    IF state_name = <<Word("Texas")>> THEN Val(<<Word("TX")>>) ELSE Unset

Pattern3(t) ==
    LET n == Len(t)
        k == Pattern3Comma(t)
        m == Last(Commas(SubSeq(t, 1, k - 1)))
        state_name == SubSeq(t, k + 1, n - 1)
        state_abbr == convert_state_name_to_abbr(state_name)
    IN  [street |-> Val(DropLastComma(SubSeq(t, 1, m))),
         city |-> Val(DropLastComma(SubSeq(t, m + 1, k))),
         state |-> IF state_abbr.set THEN state_abbr
                   ELSE Val([i \in DOMAIN state_name |->
                                Word(Upper(state_name[i].word))]),
         zip_code |-> Val(<<t[n]>>)]

\* the text is dropped: no street and no city are taken from what
\* is left
Residual_NoStreet(t) ==
    [AllNone EXCEPT !.zip_code = IF EndsWithZip(t) THEN Val(<<t[Len(t)]>>)
                                 ELSE Unset]

\* no pattern matches: the ZIP at the end is taken, then the two capital
\* letters before five digits, and what is left is the street, or the
\* street and the city when it holds a comma
Residual(t) ==
    LET rest == IF EndsWithZip(t) THEN SubSeq(t, 1, Len(t) - 1) ELSE t
        states == {i \in 1..(Len(rest) - 1) :
                      /\ IsUpperTwo(rest[i].word)
                      /\ ~rest[i].comma
                      /\ StartsWithFiveDigits(rest[i + 1].word)}
        address == Without(rest, states)
        cs == Commas(address)
    IN  [street |-> IF cs # {}
                    THEN Val(DropLastComma(SubSeq(address, 1, First(cs))))
                    ELSE Val(address),
         city |-> IF cs # {}
                  THEN Val(SubSeq(address, Last(cs) + 1, Len(address)))
                  ELSE Unset,
         state |-> IF states # {} THEN Val(<<rest[First(states)]>>) ELSE Unset,
         zip_code |-> IF EndsWithZip(t) THEN Val(<<t[Len(t)]>>) ELSE Unset]

\* an argument of parse_full_address: None, or a string, which is a text
\* with blanks around it (or nothing but blanks)
Str(t, padded) == [none |-> FALSE, padded |-> padded, parts |-> t]

NoString == [none |-> TRUE, padded |-> FALSE, parts |-> <<>>]

\* `not address_string or not address_string.strip()`
IsBlank(address_string) == address_string.none \/ address_string.parts = <<>>

\* parse_full_address(address_string), on the parts of the text
parse_parts(address_string) ==
    LET address == address_string.parts
    IN  IF IsBlank(address_string) THEN AllNone
        ELSE IF Pattern1State(address) # 0 THEN Pattern1(address)
        ELSE IF Pattern2Matches(address) THEN Pattern2(address)
        ELSE IF Pattern3Comma(address) # 0 THEN Pattern3(address)
        ELSE Residual(address)

\* None, '', ' ', and every text of up to MaxParts parts
ParseInputs ==
    {NoString, Str(<<>>, FALSE), Str(<<>>, TRUE)} \cup
    {Str(t, FALSE) : t \in UNION {[1..n -> Part] : n \in 1..MaxParts}}

\* parse_full_address(address_string)
ParseCall ==
    /\ run = "parse"
    /\ result.nth = 0
    /\ result' = [nth |-> 1, ok |-> TRUE, sent |-> FALSE,
                  value |-> parse_parts(arg)]
    /\ UNCHANGED <<arg, listings, clock, pipeline, farm>>

InitParse ==
    /\ run = "parse"
    /\ NoPipeline
    /\ listings = <<>>
    /\ clock = 0
    /\ arg \in ParseInputs
    /\ result = NoResult
    /\ NoFarm

NextParse == ParseCall

SpecParse == InitParse /\ [][NextParse]_vars

----------------------------------------------------------------------------
(* Properties of parse_full_address *)

Parsed == run = "parse" /\ result.nth = 1

\* text without a letter or a digit
IsGarbage(address_string) ==
    /\ ~IsBlank(address_string)
    /\ \A i \in DOMAIN address_string.parts :
           address_string.parts[i].word \in {"??"}

FourFields == {"street", "city", "state", "zip_code"}

\* C26: parse_full_address is total: for every input it returns the four
\* fields street, city, state and zip, and for empty, None, whitespace-only
\* and garbage input all four are None.
C26_TotalAndAllNoneOnGarbage ==
    Parsed =>
        /\ DOMAIN result.value = FourFields
        /\ (IsBlank(arg) \/ IsGarbage(arg)) => result.value = AllNone

\* C26 as the code has it: for every input the four fields are returned;
\* they are all None for empty, None and whitespace-only input, and for any
\* other input, garbage included, some field is not None.
C26_TotalAndAllNoneOnBlank ==
    Parsed =>
        /\ DOMAIN result.value = FourFields
        /\ IsBlank(arg) <=> result.value = AllNone

\* garbage has been parsed: it is returned as the street
C26_Witness ==
    /\ Parsed
    /\ arg = Str(<<Word("??"), Word("??")>>, FALSE)
    /\ result.value = [AllNone EXCEPT !.street = Val(arg.parts)]


\* a 2-letter state code
IsStateCode(t) == Len(t) = 1 /\ t[1].word \in {"NY", "TX"} /\ ~t[1].comma

\* a string of five digits
IsFiveDigits(t) == t = <<Word("12180")>>

\* C27: in every result of parse_full_address each field is None or a
\* non-empty string, never the empty string; the state, when present, is a
\* 2-letter code and the zip, when present, a 5-digit string.
C27_FieldsNoneOrWellFormed ==
    Parsed =>
        /\ \A k \in FourFields :
               result.value[k].set => result.value[k].text # <<>>
        /\ result.value.state.set => IsStateCode(result.value.state.text)
        /\ result.value.zip_code.set => IsFiveDigits(result.value.zip_code.text)

----------------------------------------------------------------------------
(* FSBO.py: normalize_zip, and the zip_code cell of save_to_csv *)

Digits == {"0", "1"}

\* the characters of the inputs: digits, a letter and a hyphen
Chars == Digits \cup {"a", "-"}

\* an argument: None, or a string, which is the sequence of its characters
CharString(s) == [none |-> FALSE, chars |-> s]

NoChars == [none |-> TRUE, chars |-> <<>>]

RECURSIVE TakeDigits(_)
\* the digits at the head of s
TakeDigits(s) ==
    IF s = <<>> \/ s[1] \notin Digits THEN <<>>
    ELSE <<s[1]>> \o TakeDigits(Tail(s))

RECURSIVE FirstDigits(_)
\* re.search(r'(\d+)', s): the first run of digits, <<>> when there is none
FirstDigits(s) ==
    IF s = <<>> THEN <<>>
    ELSE IF s[1] \in Digits THEN TakeDigits(s)
    ELSE FirstDigits(Tail(s))

\* str.zfill(width) of a string of digits
zfill(s, width) ==
    IF Len(s) >= width THEN s
    ELSE [i \in 1..width |-> IF i <= width - Len(s) THEN "0"
                             ELSE s[i - (width - Len(s))]]

\* the last five digits of a long run are kept
normalize_zip_LastFive(zip_like) ==
    LET digits == FirstDigits(zip_like.chars)
    IN  IF zip_like.none \/ zip_like.chars = <<>> THEN <<>>
        ELSE IF digits = <<>> THEN <<>>
        ELSE IF Len(digits) >= 5 THEN SubSeq(digits, Len(digits) - 4, Len(digits))
        ELSE zfill(digits, 5)

\* normalize_zip(zip_like)
normalize_zip(zip_like) ==
    LET digits == FirstDigits(zip_like.chars)
    IN  IF zip_like.none \/ zip_like.chars = <<>> THEN <<>>
        ELSE IF digits = <<>> THEN <<>>
        ELSE IF Len(digits) >= 5 THEN SubSeq(digits, 1, 5)
        ELSE zfill(digits, 5)

\* x.isdigit()
isdigit(x) == x # <<>> /\ \A i \in DOMAIN x : x[i] \in Digits

\* the zip_code cell save_to_csv writes: normalize_zip, then
\* `x.zfill(5) if x and x.isdigit() else x` on the column
zip_code_cell(zip_like) ==
    LET x == normalize_zip(zip_like)
    IN  IF x # <<>> /\ isdigit(x) THEN zfill(x, 5) ELSE x

\* None and every string of up to MaxZipLen characters
ZipInputs ==
    {NoChars} \cup
    {CharString(s) : s \in UNION {[1..n -> Chars] : n \in 0..MaxZipLen}}

\* normalize_zip(zip_like)
NormalizeZip ==
    /\ run = "zip"
    /\ result.nth = 0
    /\ result' = [nth |-> 1, ok |-> TRUE, sent |-> FALSE,
                  value |-> normalize_zip(arg)]
    /\ UNCHANGED <<arg, listings, clock, pipeline, farm>>

\* save_to_csv(data) with data['zip_code'] = zip_like
SaveToCsv ==
    /\ run = "zip"
    /\ result.nth = 0
    /\ result' = [nth |-> 2, ok |-> TRUE, sent |-> FALSE,
                  value |-> zip_code_cell(arg)]
    /\ UNCHANGED <<arg, listings, clock, pipeline, farm>>

InitZip ==
    /\ run = "zip"
    /\ NoPipeline
    /\ listings = <<>>
    /\ clock = 0
    /\ arg \in ZipInputs
    /\ result = NoResult
    /\ NoFarm

NextZip == NormalizeZip \/ SaveToCsv

SpecZip == InitZip /\ [][NextZip]_vars

----------------------------------------------------------------------------
(* Properties of normalize_zip *)

\* the positions of the first run of digits of s
FirstRun(s) ==
    LET ds == {i \in DOMAIN s : s[i] \in Digits}
        a == CHOOSE i \in ds : \A j \in ds : i <= j
    IN  IF ds = {} THEN {}
        ELSE {i \in ds : \A j \in a..i : j \in ds}

----------------------------------------------------------------------------
(* normalize_phone, in Enrichment.py and in FSBO.py *)

\* \d
PhoneDigits == {"0", "1", "2", "3", "4", "5", "6", "7", "8", "9"}

\* re.sub(r'\D', '', phone)
DigitsOnly(s) == SelectSeq(s, LAMBDA ch : ch \in PhoneDigits)

RECURSIVE lstrip(_)
lstrip(s) == IF s # <<>> /\ s[1] = " " THEN lstrip(Tail(s)) ELSE s

RECURSIVE rstrip(_)
rstrip(s) == IF s # <<>> /\ s[Len(s)] = " "
             THEN rstrip(SubSeq(s, 1, Len(s) - 1)) ELSE s

\* str.strip()
strip(s) == rstrip(lstrip(s))

\* f"({digits[:3]}) {digits[3:6]}-{digits[6:]}" for ten digits
Formatted(digits) ==
    <<"(">> \o SubSeq(digits, 1, 3) \o <<")", " ">> \o SubSeq(digits, 4, 6)
        \o <<"-">> \o SubSeq(digits, 7, 10)

\* TruePeopleSearchParser.normalize_phone(phone)
normalize_phone(phone) ==
    LET digits == DigitsOnly(phone.chars)
    IN  IF phone.none \/ phone.chars = <<>> THEN <<>>
        ELSE IF Len(digits) = 10 THEN Formatted(digits)
        ELSE IF Len(digits) = 11 /\ digits[1] = "1" THEN Formatted(Tail(digits))
        ELSE strip(phone.chars)

\* the brokerage number that is kept out of the export
Brokerage == <<"8", "4", "4", "7", "5", "9", "7", "7", "3", "2">>

\* the digits of BLACKLISTED_PHONE_NUMBERS
BlacklistedDigits == {<<"1">> \o Brokerage, Brokerage}

\* the blacklist is not looked at
FSBO_normalize_phone_NoBlacklist(phone_text) == normalize_phone(phone_text)

\* normalize_phone(phone_text) of FSBO.py
FSBO_normalize_phone(phone_text) ==
    LET digits_only == DigitsOnly(phone_text.chars)
    IN  IF phone_text.none \/ phone_text.chars = <<>> THEN <<>>
        ELSE IF digits_only \in BlacklistedDigits THEN <<>>
        ELSE IF Len(digits_only) = 10 THEN Formatted(digits_only)
        ELSE IF Len(digits_only) = 11 /\ digits_only[1] = "1"
             THEN Formatted(Tail(digits_only))
        ELSE strip(phone_text.chars)

\* a number of a seller
Seller == <<"5", "5", "5", "1", "2", "3", "4", "5", "6", "7">>

\* the ways a page writes a number of ten digits
Dashed(digits) ==
    SubSeq(digits, 1, 3) \o <<"-">> \o SubSeq(digits, 4, 6) \o <<"-">>
        \o SubSeq(digits, 7, 10)

Writings(digits) == {digits, Dashed(digits), Formatted(digits)}

\* what may stand before the number: a country code, with or without a
\* hyphen, or another digit
Prefixes == {<<>>, <<"1">>, <<"1", "-">>, <<"2">>, <<"+", "1", " ">>}

\* None, the short strings, and the numbers (whole, or with the last digit
\* missing) in every writing, after every prefix, with or without blanks
\* around them or an extension behind them
PhoneInputs ==
    {NoChars} \cup
    {CharString(s) :
        s \in UNION {[1..n -> {"5", " ", "x"}] : n \in 0..MaxPhoneLen}} \cup
    {CharString(lead \o prefix \o w \o trail) :
        lead \in {<<>>, <<" ">>},
        prefix \in Prefixes,
        w \in UNION {Writings(d) \cup {SubSeq(d, 1, 9)} : d \in {Seller, Brokerage}},
        trail \in {<<>>, <<" ">>, <<" ", "x", "5">>}}

\* TruePeopleSearchParser.normalize_phone(phone)
EnrichmentPhone ==
    /\ run = "phone"
    /\ result.nth = 0
    /\ result' = [nth |-> 1, ok |-> TRUE, sent |-> FALSE,
                  value |-> normalize_phone(arg)]
    /\ UNCHANGED <<arg, listings, clock, pipeline, farm>>

\* normalize_phone(phone_text) of FSBO.py
FsboPhone ==
    /\ run = "phone"
    /\ result.nth = 0
    /\ result' = [nth |-> 2, ok |-> TRUE, sent |-> FALSE,
                  value |-> FSBO_normalize_phone(arg)]
    /\ UNCHANGED <<arg, listings, clock, pipeline, farm>>

InitPhone ==
    /\ run = "phone"
    /\ NoPipeline
    /\ listings = <<>>
    /\ clock = 0
    /\ arg \in PhoneInputs
    /\ result = NoResult
    /\ NoFarm

NextPhone == EnrichmentPhone \/ FsboPhone

SpecPhone == InitPhone /\ [][NextPhone]_vars

----------------------------------------------------------------------------
(* Properties of normalize_phone *)

\* the ten digits of a number the functions format, <<>> when the input is
\* no such number
TenDigits(s) ==
    LET digits == DigitsOnly(s)
    IN  IF Len(digits) = 10 THEN digits
        ELSE IF Len(digits) = 11 /\ digits[1] = "1" THEN Tail(digits)
        ELSE <<>>

\* '(NNN) NNN-NNNN' with the ten digits N
IsFormatted(value, digits) ==
    /\ Len(value) = 14
    /\ value[1] = "(" /\ value[5] = ")" /\ value[6] = " " /\ value[10] = "-"
    /\ <<value[2], value[3], value[4], value[7], value[8], value[9],
         value[11], value[12], value[13], value[14]>> = digits

\* C29: both implementations return '(NNN) NNN-NNNN' for every input with
\* exactly ten digits, or with eleven digits of which the first is 1 (and
\* is dropped), and the trimmed input for every other input that is not
\* empty.
C29_PhoneFormattedOrTrimmed ==
    (run = "phone" /\ result.nth >= 1 /\ ~arg.none /\ arg.chars # <<>>) =>
        LET digits == TenDigits(arg.chars)
        IN  IF digits # <<>> THEN IsFormatted(result.value, digits)
            ELSE result.value = strip(arg.chars)

\* C29 as the code has it: as above, except that the implementation of
\* FSBO.py returns the empty string for the blacklisted number, written
\* with or without the leading 1.
C29_PhoneFormattedOrTrimmedOrBlacklisted ==
    (run = "phone" /\ result.nth >= 1 /\ ~arg.none /\ arg.chars # <<>>) =>
        LET digits == TenDigits(arg.chars)
        IN  IF result.nth = 2 /\ DigitsOnly(arg.chars) \in BlacklistedDigits
            THEN result.value = <<>>
            ELSE IF digits # <<>> THEN IsFormatted(result.value, digits)
            ELSE result.value = strip(arg.chars)

\* the blacklisted number, with its country code, given to the function of
\* FSBO.py
C29_Witness ==
    /\ run = "phone"
    /\ result.nth = 2
    /\ arg = CharString(<<"1", "-">> \o Dashed(Brokerage))
    /\ result.value = <<>>

----------------------------------------------------------------------------
(* Properties of the fields of a payload *)

\* the 'other' bag of the payload that was sent
SentBag == IF "other" \in DOMAIN result.value THEN result.value["other"] ELSE {}

\* the canonical columns that read the key
ColumnsOf(key) ==
    {col \in MappedColumns :
        \E j \in DOMAIN SourceKeys(col) : SourceKeys(col)[j] = key}

\* the key is the first one of the priority list of col with a value in
\* the lead
IsFirstFilled(lead_data, col, key) ==
    \E j \in DOMAIN SourceKeys(col) :
        /\ SourceKeys(col)[j] = key
        /\ \A i \in 1..(j - 1) : ~Truthy(Get(lead_data, SourceKeys(col)[i]))

\* the value of the key is in the payload: in a column that reads the key
\* (as it is, or as the date it was parsed to), or in the bag
Reaches(key) ==
    \/ \E col \in ColumnsOf(key) :
          /\ col \in DOMAIN result.value
          /\ \/ result.value[col] = arg[key]
             \/ /\ col \in timestamp_fields
                /\ result.value[col] = clean_timestamp(arg[key])
    \/ <<key, arg[key]>> \in SentBag

\* C30: no field of the lead is dropped by the merge: every key of the lead
\* data with a non-empty value reaches the payload, as the value of a
\* canonical column or as an entry of the 'other' bag, also a key of lower
\* priority whose column was filled from a key of higher priority.
C30_NoFieldDropped ==
    (run = "save" /\ result.sent) =>
        \A key \in DOMAIN arg : Truthy(arg[key]) => Reaches(key)

\* C30 as the code has it: a key that no column reads is in the bag; a key
\* that is the first filled one of its column's priority list is the value
\* of the column, for a timestamp column when it passes the validation; a
\* key of lower priority whose column was filled from another key is not
\* in the bag, and the column holds the other key's value.
C30_FieldKeptUnlessOutranked ==
    (run = "save" /\ result.sent) =>
        \A key \in DOMAIN arg :
            Truthy(arg[key]) =>
                /\ ColumnsOf(key) = {} => <<key, arg[key]>> \in SentBag
                /\ \A col \in ColumnsOf(key) :
                      IF IsFirstFilled(arg, col, key)
                      THEN IF col \in timestamp_fields
                           THEN IF clean_timestamp(arg[key]) = None
                                THEN col \notin DOMAIN result.value
                                ELSE /\ col \in DOMAIN result.value
                                     /\ result.value[col] = clean_timestamp(arg[key])
                           ELSE /\ col \in DOMAIN result.value
                                /\ result.value[col] = arg[key]
                      ELSE <<key, arg[key]>> \notin SentBag

\* a lead with 'address' and 'street': the column holds the address, and
\* the value of 'street' is nowhere in the payload
C30_Witness ==
    /\ run = "save"
    /\ result.sent
    /\ Truthy(Get(arg, "address"))
    /\ Truthy(Get(arg, "street"))
    /\ result.value["street"] = arg["address"]
    /\ ~Reaches("street")

====
